---- MODULE Spec2Model ----
(***************************************************************************)
(* PiFinder catalog engine (python/PiFinder/catalogs.py): the designator   *)
(* text-state machine, the catalog collection with its two indices and its *)
(* filter, the catalog registry, the tracker and the deduplication of      *)
(* nearest-object results.                                                 *)
(*                                                                         *)
(* Python values: None is the empty sequence <<>> and a value v that may   *)
(* be None is <<v>>; a text is a sequence of one-character strings; an     *)
(* instance is a record of its attributes and a method is an operator from *)
(* the instance (and the arguments) to the instance after the call.        *)
(***************************************************************************)
EXTENDS Integers, Sequences, FiniteSets, TLC

VARIABLES
    designator,          \* SpecDesignator: one CatalogDesignator instance
    typed,               \* SpecDesignator: digits keyed in since construction
    catalog_filter,      \* SpecFilter: one CatalogFilter instance
    catalog,             \* SpecCatalog: one Catalog instance
    shared_state,        \* sky-position context (location, datetime, solution)
    catalogs,            \* the Catalogs instance (the registry)
    heap,                \* the Catalog instances, by catalog code
    designator_tracker,  \* CatalogTracker.designator_tracker
    object_tracker,      \* CatalogTracker.object_tracker
    current_catalog_name,\* CatalogTracker.current_catalog_name
    current_catalog,     \* CatalogTracker.current_catalog (as a key of heap)
    unfiltered_results,  \* SpecDedup: the ranked list given to _deduplicate
    deduplicated,        \* SpecDedup: what _deduplicate returned
    last                 \* the last call: operation, arguments, result, error

designatorVars == <<designator, typed>>
catalogVars == <<catalog_filter, catalog>>
registryVars == <<catalogs, heap>>
trackerVars == <<designator_tracker, object_tracker, current_catalog_name,
                 current_catalog>>
dedupVars == <<unfiltered_results, deduplicated>>
vars == <<designatorVars, catalogVars, shared_state, registryVars,
          trackerVars, dedupVars, last>>

None == <<>>
Some(v) == <<v>>

RECURSIVE Pow10(_)
Pow10(w) == IF w = 0 THEN 1 ELSE 10 * Pow10(w - 1)

----------------------------------------------------------------------------
(* Texts and the conversions str() and int()                               *)

DigitChars == <<"0", "1", "2", "3", "4", "5", "6", "7", "8", "9">>

DigitVal(c) == (CHOOSE i \in 1..10 : DigitChars[i] = c) - 1

RECURSIVE NatStr(_)
NatStr(n) == IF n < 10 THEN <<DigitChars[n + 1]>>
             ELSE NatStr(n \div 10) \o <<DigitChars[(n % 10) + 1]>>

\* str(i) of a Python int: the decimal digits, "-" first when negative
str(n) == IF n < 0 THEN <<"-">> \o NatStr(0 - n) ELSE NatStr(n)

RECURSIVE ParseNat(_)
ParseNat(s) == IF s = <<>> THEN 0
               ELSE 10 * ParseNat(SubSeq(s, 1, Len(s) - 1)) + DigitVal(s[Len(s)])

\* int(s) of a decimal text: leading zeros are dropped, "-" negates
int(s) == IF s[1] = "-" THEN 0 - ParseNat(Tail(s)) ELSE ParseNat(s)

\* the characters of a catalog code
CodeChars(code) ==
    CASE code = "M" -> <<"M">>
      [] code = "NGC" -> <<"N", "G", "C">>
      [] code = "IC" -> <<"I", "C">>
      [] code = "C" -> <<"C">>
      [] code = "PUSH" -> <<"P", "U", "S", "H">>
      [] OTHER -> <<"?">>

\* format spec {s:F>w}: right-align s in w characters, filling with F
RightAlign(s, fill, w) ==
    IF Len(s) >= w THEN s ELSE [i \in 1..(w - Len(s)) |-> fill] \o s

----------------------------------------------------------------------------
(* CatalogDesignator                                                       *)

get_catalog_name(self) == self.catalog_name

get_catalog_width(self) == self.width

has_number(self) == self.object_number > 0

get_designator(self) ==
    LET number_str == IF has_number(self) THEN str(self.object_number) ELSE <<>>
    IN RightAlign(CodeChars(get_catalog_name(self)), " ", 3) \o <<" ">>
       \o RightAlign(number_str, "-", get_catalog_width(self))

Refresh(self) == [self EXCEPT !.field = get_designator(self)]

CatalogDesignator(catalog_name, max_sequence) ==
    Refresh([catalog_name |-> catalog_name, object_number |-> 0,
             width |-> Len(str(max_sequence)), field |-> <<>>])

\* append_number without the cut to width characters
append_number_KeepsAll(self, number) ==
    Refresh([self EXCEPT !.object_number =
                int(str(self.object_number) \o str(number))])

append_number(self, number) ==
    LET joined == str(self.object_number) \o str(number)
        number_str == IF Len(joined) > get_catalog_width(self)
                      THEN Tail(joined) ELSE joined
    IN Refresh([self EXCEPT !.object_number = int(number_str)])

set_number(self, number) == Refresh([self EXCEPT !.object_number = number])

reset_number(self) == Refresh([self EXCEPT !.object_number = 0])

increment_number(self) ==
    Refresh([self EXCEPT !.object_number = self.object_number + 1])

decrement_number(self) ==
    Refresh([self EXCEPT !.object_number = self.object_number - 1])

----------------------------------------------------------------------------
(* Python values of several types: a record of the type and the value      *)

PyNone == [kind |-> "NoneType", val |-> 0]
PyStr(s) == [kind |-> "str", val |-> s]
PyNum(n) == [kind |-> "num", val |-> n]
PyList(l) == [kind |-> "list", val |-> l]
PyText(chars) == [kind |-> "text", val |-> chars]

IsStr(v, s) == v.kind = "str" /\ v.val = s
IsList(v, l) == v.kind = "list" /\ v.val = l
Truthy(v) == v # None

Range(f) == {f[i] : i \in DOMAIN f}

\* float(x): a number, or the error the conversion raises
float(x) ==
    CASE x.kind = "num" -> [err |-> "", val |-> x.val]
      [] x.kind = "NoneType" -> [err |-> "TypeError", val |-> 0]
      [] x.kind = "text" ->
           IF x.val # <<>> /\ \A i \in 1..Len(x.val) : x.val[i] \in Range(DigitChars)
           THEN [err |-> "", val |-> ParseNat(x.val)]
           ELSE [err |-> "ValueError", val |-> 0]

----------------------------------------------------------------------------
(* calc_utils.FastAltAz: the altitude of a sky position for a location and *)
(* a time                                                                  *)

FastAltAz(lat, lon, dt) == [lat |-> lat, lon |-> lon, dt |-> dt]

radec_to_altaz(fast_aa, ra, dec) == dec - fast_aa.lat + fast_aa.dt

----------------------------------------------------------------------------
(* CatalogFilter                                                           *)

set_values(self, magnitude_filter, type_filter, altitude_filter, observed_filter) ==
    [self EXCEPT !.magnitude_filter = magnitude_filter,
                 !.type_filter = type_filter,
                 !.altitude_filter = altitude_filter,
                 !.observed_filter = observed_filter]

\* the constructor; fast_aa is the class attribute, None
CatalogFilter(magnitude_filter, type_filter, altitude_filter, observed_filter) ==
    set_values([magnitude_filter |-> PyNone, type_filter |-> PyNone,
                altitude_filter |-> PyNone, observed_filter |-> PyNone,
                fast_aa |-> None],
               magnitude_filter, type_filter, altitude_filter, observed_filter)

\* calc_fast_aa stores the transform in self.fast_aa when the context is
\* complete; the call itself returns None on both paths
calc_fast_aa(self, state) ==
    LET solution == state.solution
        location == state.location
        dt == state.datetime
    IN [self |-> IF Truthy(location) /\ Truthy(dt) /\ Truthy(solution)
                 THEN [self EXCEPT !.fast_aa =
                          Some(FastAltAz(location[1].lat, location[1].lon, dt[1]))]
                 ELSE self,
        ret |-> None]

\* apply_filter with the observed check deciding alone whenever it is active
apply_filter_ObservedOverrides(self, obj) ==
    LET converted == float(obj.mag)
        obj_mag == IF converted.err = "" THEN converted.val ELSE 99
    IN  IF ~IsStr(self.observed_filter, "Any")
        THEN IF IsStr(self.observed_filter, "Yes") = obj.logged
             THEN "True" ELSE "False"
        ELSE IF ~IsStr(self.magnitude_filter, "None")
                /\ obj_mag >= self.magnitude_filter.val THEN "False"
        ELSE IF ~IsList(self.type_filter, <<"None">>)
                /\ obj.obj_type \notin Range(self.type_filter.val) THEN "False"
        ELSE "True"

\* apply_filter that judges a magnitude it cannot convert as magnitude 0
apply_filter_UnknownIsBright(self, obj) ==
    LET altitude_on == ~IsStr(self.altitude_filter, "None") /\ Truthy(self.fast_aa)
        obj_altitude == radec_to_altaz(self.fast_aa[1], obj.ra, obj.dec)
        converted == float(obj.mag)
        obj_mag == IF converted.err = "" THEN converted.val ELSE 0
        magnitude_on == ~IsStr(self.magnitude_filter, "None")
        type_on == ~IsList(self.type_filter, <<"None">>)
        observed_on == ~IsStr(self.observed_filter, "Any")
    IN  IF altitude_on /\ self.altitude_filter.kind # "num" THEN "TypeError"
        ELSE IF altitude_on /\ obj_altitude < self.altitude_filter.val THEN "False"
        ELSE IF magnitude_on /\ self.magnitude_filter.kind # "num" THEN "TypeError"
        ELSE IF magnitude_on /\ obj_mag >= self.magnitude_filter.val THEN "False"
        ELSE IF type_on /\ self.type_filter.kind # "list" THEN "TypeError"
        ELSE IF type_on /\ obj.obj_type \notin Range(self.type_filter.val) THEN "False"
        ELSE IF observed_on
             THEN IF IsStr(self.observed_filter, "Yes") = obj.logged
                  THEN "True" ELSE "False"
        ELSE "True"

\* apply_filter: "True", "False", or the error that the call raises
apply_filter(self, obj) ==
    LET altitude_on == ~IsStr(self.altitude_filter, "None") /\ Truthy(self.fast_aa)
        obj_altitude == radec_to_altaz(self.fast_aa[1], obj.ra, obj.dec)
        converted == float(obj.mag)
        obj_mag == IF converted.err = "" THEN converted.val ELSE 99
        magnitude_on == ~IsStr(self.magnitude_filter, "None")
        type_on == ~IsList(self.type_filter, <<"None">>)
        observed_on == ~IsStr(self.observed_filter, "Any")
    IN  IF altitude_on /\ self.altitude_filter.kind # "num" THEN "TypeError"
        ELSE IF altitude_on /\ obj_altitude < self.altitude_filter.val THEN "False"
        ELSE IF magnitude_on /\ self.magnitude_filter.kind # "num" THEN "TypeError"
        ELSE IF magnitude_on /\ obj_mag >= self.magnitude_filter.val THEN "False"
        ELSE IF type_on /\ self.type_filter.kind # "list" THEN "TypeError"
        ELSE IF type_on /\ obj.obj_type \notin Range(self.type_filter.val) THEN "False"
        ELSE IF observed_on
             THEN IF IsStr(self.observed_filter, "Yes") = obj.logged
                  THEN "True" ELSE "False"
        ELSE "True"

RECURSIVE FilterList(_, _)
\* [obj for obj in objects if self.apply_filter(obj)]: the objects kept, or
\* the first error raised
FilterList(self, objects) ==
    IF objects = <<>> THEN [err |-> "", val |-> <<>>]
    ELSE LET verdict == apply_filter(self, Head(objects))
             rest == FilterList(self, Tail(objects))
         IN IF verdict \notin {"True", "False"} THEN [err |-> verdict, val |-> <<>>]
            ELSE IF rest.err # "" THEN rest
            ELSE [err |-> "",
                  val |-> IF verdict = "True" THEN <<Head(objects)>> \o rest.val
                          ELSE rest.val]

\* apply that filters with the transform of the call before and keeps the
\* one calc_fast_aa stored for the next call
apply_StaleTransform(self, state, objects) ==
    LET kept == FilterList(self, objects)
    IN [self |-> calc_fast_aa(self, state).self, err |-> kept.err, ret |-> kept.val]

\* apply that leaves self.fast_aa as calc_fast_aa left it
apply_KeepsTransform(self, state, objects) ==
    LET Kept(after) ==
            LET kept == FilterList(after, objects)
            IN [self |-> after, err |-> kept.err, ret |-> kept.val]
    IN Kept(calc_fast_aa(self, state).self)

\* apply: self.fast_aa becomes what calc_fast_aa returned, then the list is
\* filtered
apply(self, state, objects) ==
    LET called == calc_fast_aa(self, state)
        after == [called.self EXCEPT !.fast_aa = called.ret]
        kept == FilterList(after, objects)
    IN [self |-> after, err |-> kept.err, ret |-> kept.val]

----------------------------------------------------------------------------
(* CatalogBase and Catalog.  Positions in the object list count from 1.    *)

catalog_base_id_sort(obj) == obj.id

catalog_base_sequence_sort(obj) == obj.sequence

RECURSIVE InsertSorted(_, _)
\* obj goes behind every element whose key is not larger (the sort is stable)
InsertSorted(sorted, obj) ==
    IF sorted = <<>> THEN <<obj>>
    ELSE IF catalog_base_sequence_sort(Head(sorted)) <= catalog_base_sequence_sort(obj)
         THEN <<Head(sorted)>> \o InsertSorted(Tail(sorted), obj)
         ELSE <<obj>> \o sorted

RECURSIVE SortList(_)
SortList(l) ==
    IF l = <<>> THEN <<>>
    ELSE InsertSorted(SortList(SubSeq(l, 1, Len(l) - 1)), l[Len(l)])

\* a dict comprehension {key(obj): i for i, obj in enumerate(objects)}: the
\* last position of a key is the one kept
PosDict(keys) ==
    [k \in {keys[i] : i \in DOMAIN keys} |->
        CHOOSE i \in DOMAIN keys :
            /\ keys[i] = k
            /\ \A j \in DOMAIN keys : keys[j] = k => j <= i]

IdKeys(objects) == [i \in DOMAIN objects |-> catalog_base_id_sort(objects[i])]

SequenceKeys(objects) ==
    [i \in DOMAIN objects |-> catalog_base_sequence_sort(objects[i])]

\* an attribute that is declared and not yet assigned
Unset == [set |-> FALSE, pos |-> <<>>]

\* Catalog.__init__: no index is assigned; filtered_objects is the object
\* list itself (shares_objects) until filter_objects replaces it
Catalog(catalog_code, max_sequence, desc) ==
    [catalog_code |-> catalog_code, max_sequence |-> max_sequence,
     objects |-> <<>>, id_to_pos |-> Unset, sequence_to_pos |-> Unset,
     catalog_filter |-> CatalogFilter(PyNone, PyNone, PyNone, PyNone),
     filtered_objects |-> <<>>, shares_objects |-> TRUE, last_filtered |-> 0]

\* every change of the object list shows in filtered_objects while the two
\* are one list
WithObjects(self, objects) ==
    [self EXCEPT !.objects = objects,
                 !.filtered_objects =
                     IF self.shares_objects THEN objects ELSE self.filtered_objects]

_add_object(self, obj) == WithObjects(self, Append(self.objects, obj))

_sort_objects(self) == WithObjects(self, SortList(self.objects))

_update_id_to_pos(self) ==
    [self EXCEPT !.id_to_pos =
        [set |-> TRUE, pos |-> PosDict(IdKeys(self.objects))]]

_update_sequence_to_pos(self) ==
    [self EXCEPT !.sequence_to_pos =
        [set |-> TRUE, pos |-> PosDict(SequenceKeys(self.objects))]]

\* add_object with the indices built before the sort
add_object_IndexBeforeSort(self, obj) ==
    _sort_objects(_update_sequence_to_pos(_update_id_to_pos(_add_object(self, obj))))

add_object(self, obj) ==
    _update_sequence_to_pos(_update_id_to_pos(_sort_objects(_add_object(self, obj))))

RECURSIVE AddAll(_, _)
AddAll(self, objects) ==
    IF objects = <<>> THEN self
    ELSE AddAll(_add_object(self, Head(objects)), Tail(objects))

add_objects(self, objects) ==
    _update_sequence_to_pos(_update_id_to_pos(_sort_objects(AddAll(self, objects))))

\* a lookup: the object, or the error raised
Lookup(self, index, key) ==
    IF ~index.set THEN [err |-> "AttributeError", ret |-> None]
    ELSE IF key \notin DOMAIN index.pos THEN [err |-> "KeyError", ret |-> None]
    ELSE [err |-> "", ret |-> Some(self.objects[index.pos[key]])]

get_object_by_id(self, id) == Lookup(self, self.id_to_pos, id)

get_object_by_sequence(self, sequence) == Lookup(self, self.sequence_to_pos, sequence)

get_objects(self) == self.objects

\* filter_objects that filters the object list in place
filter_objects_InPlace(self, state) ==
    LET applied == apply(self.catalog_filter, state, get_objects(self))
        filtering == [self EXCEPT !.catalog_filter = applied.self]
    IN IF applied.err # "" THEN [self |-> filtering, err |-> applied.err]
       ELSE [self |-> [filtering EXCEPT !.objects = applied.ret,
                                        !.filtered_objects = applied.ret,
                                        !.shares_objects = FALSE,
                                        !.last_filtered = 1],
             err |-> ""]

\* filter_objects: filtered_objects and last_filtered are assigned only when
\* apply returns
filter_objects(self, state) ==
    LET applied == apply(self.catalog_filter, state, get_objects(self))
        filtering == [self EXCEPT !.catalog_filter = applied.self]
    IN IF applied.err # "" THEN [self |-> filtering, err |-> applied.err]
       ELSE [self |-> [filtering EXCEPT !.filtered_objects = applied.ret,
                                        !.shares_objects = FALSE,
                                        !.last_filtered = 1],
             err |-> ""]

----------------------------------------------------------------------------
(* Catalogs, the registry.  A Catalog instance is named by its code, the   *)
(* key it has in heap; a dict is the sequence of its keys in insertion     *)
(* order, and empty when the cache is cleared.                             *)

Catalogs(list) == [catalogs |-> list, catalog_dict |-> <<>>]

RECURSIVE DictKeys(_)
\* the keys of {catalog.catalog_code: catalog for catalog in list}
DictKeys(list) ==
    IF list = <<>> THEN <<>>
    ELSE LET front == DictKeys(SubSeq(list, 1, Len(list) - 1))
         IN IF list[Len(list)] \in Range(front) THEN front
            ELSE Append(front, list[Len(list)])

\* get_dict builds the map when the cached one is empty, and caches it
get_dict(self) ==
    LET built == IF self.catalog_dict = <<>> THEN DictKeys(self.catalogs)
                 ELSE self.catalog_dict
    IN [self |-> [self EXCEPT !.catalog_dict = built], ret |-> built]

get_names(self) == get_dict(self)

add(self, catalog_code) ==
    LET cd == get_dict(self)
    IN IF catalog_code \notin Range(cd.ret)
       THEN [cd.self EXCEPT !.catalogs = Append(cd.self.catalogs, catalog_code),
                            !.catalog_dict = <<>>]
       ELSE cd.self

set(self, list) == [self EXCEPT !.catalogs = list, !.catalog_dict = <<>>]

----------------------------------------------------------------------------
(* CatalogTracker.  A method takes the tracker with all it refers to and   *)
(* gives the tracker after the call, the error raised ("" when none) and   *)
(* the value returned.                                                     *)

Ok(self, ret) == [self |-> self, err |-> "", ret |-> ret]
Raise(self, err) == [self |-> self, err |-> err, ret |-> None]

\* d[key] = value on a dict d
Store(d, key, value) ==
    [k \in (DOMAIN d) \cup {key} |-> IF k = key THEN value ELSE d[k]]

\* list.index(x), counted from 1; 0 when x is not in the list
IndexOf(list, x) ==
    IF x \in Range(list)
    THEN CHOOSE i \in DOMAIN list : list[i] = x /\ \A j \in 1..(i - 1) : list[j] # x
    ELSE 0

names(self) ==
    LET called == get_names(self.catalogs)
    IN Ok([self EXCEPT !.catalogs = called.self], called.ret)

dict(self) ==
    LET called == get_dict(self.catalogs)
    IN Ok([self EXCEPT !.catalogs = called.self], called.ret)

\* number == obj for a tracked number (or None) and a CompositeObject: an
\* object is a record of its fields and equal to no number and not to None
ObjectEquals(number, obj) == FALSE

\* does_filtered_have_current_object: `in` compares the tracked number with
\* every object of filtered_objects
does_filtered_have_current_object(self) ==
    IF self.current_catalog_name \notin DOMAIN self.object_tracker
    THEN Raise(self, "KeyError")
    ELSE LET object_key == self.object_tracker[self.current_catalog_name]
             filtered_objects == self.heap[self.current_catalog].filtered_objects
         IN Ok(self, \E i \in DOMAIN filtered_objects :
                        ObjectEquals(object_key, filtered_objects[i]))

get_current_object(self) ==
    IF self.current_catalog_name \notin DOMAIN self.object_tracker
    THEN Raise(self, "KeyError")
    ELSE LET object_key == self.object_tracker[self.current_catalog_name]
         IN IF object_key = None THEN Ok(self, None)
            ELSE LET found == get_object_by_sequence(self.heap[self.current_catalog],
                                                     object_key[1])
                 IN IF found.err # "" THEN Raise(self, found.err)
                    ELSE Ok(self, found.ret)

tracker_get_designator(self, catalog_name) ==
    IF catalog_name \notin DOMAIN self.designator_tracker
    THEN Raise(self, "KeyError")
    ELSE Ok(self, Some(self.designator_tracker[catalog_name]))

\* add_foreign_catalog: the values it prints are read first; Catalog(...) is
\* then called with four arguments, one more than Catalog.__init__ takes,
\* and raises TypeError before Catalogs.add or either tracker map is reached
add_foreign_catalog(self, catalog_name) ==
    LET Printed(listed) ==
            LET shown == get_current_object(listed)
                field == tracker_get_designator(listed, listed.current_catalog_name)
            IN IF shown.err # "" THEN Raise(listed, shown.err)
               ELSE IF field.err # "" THEN Raise(listed, field.err)
               ELSE Raise(listed, "TypeError")
    IN Printed(names(self).self)

set_current_catalog(self, catalog_name) ==
    LET Added(known) ==
            IF catalog_name \notin Range(known.ret)
            THEN add_foreign_catalog(known.self, catalog_name)
            ELSE known
        Selected(checked) ==
            IF catalog_name \notin Range(checked.ret)
            THEN Raise(checked.self, "AssertionError")
            ELSE Ok([checked.self EXCEPT !.current_catalog = catalog_name,
                                         !.current_catalog_name = catalog_name],
                    None)
        Checked(added) ==
            IF added.err # "" THEN added ELSE Selected(dict(added.self))
    IN Checked(Added(dict(self)))

\* next_catalog that stops at either end of the name list
next_catalog_NoWrap(self, direction) ==
    LET listed == names(self)
        current_index == IndexOf(listed.ret, self.current_catalog_name) - 1
        stepped == current_index + direction
        next_index == IF stepped < 0 \/ stepped >= Len(listed.ret)
                      THEN current_index ELSE stepped
    IN IF current_index < 0 THEN Raise(listed.self, "ValueError")
       ELSE set_current_catalog(listed.self, listed.ret[next_index + 1])

next_catalog(self, direction) ==
    LET listed == names(self)
        current_index == IndexOf(listed.ret, self.current_catalog_name) - 1
        next_index == (current_index + direction) % Len(listed.ret)
    IN IF current_index < 0 THEN Raise(listed.self, "ValueError")
       ELSE set_current_catalog(listed.self, listed.ret[next_index + 1])

previous_catalog(self) == next_catalog(self, 0 - 1)

\* set_current_object that stores the number and leaves the designator
set_current_object_KeepsDesignator(self, object_number, catalog_name) ==
    LET name == IF catalog_name # None THEN catalog_name[1]
                ELSE self.current_catalog_name
        Stored(switched) ==
            IF switched.err = "AssertionError"
            THEN Ok([switched.self EXCEPT
                       !.designator_tracker[switched.self.current_catalog_name] =
                           set_number(@, 0)], None)
            ELSE IF switched.err # "" THEN switched
            ELSE Ok([switched.self EXCEPT !.object_tracker =
                        Store(@, name, object_number)], None)
    IN Stored(IF catalog_name # None
              THEN set_current_catalog(self, catalog_name[1])
              ELSE Ok(self, None))

\* set_current_object(object_number, catalog_name): both may be None
set_current_object(self, object_number, catalog_name) ==
    LET name == IF catalog_name # None THEN catalog_name[1]
                ELSE self.current_catalog_name
        number == IF object_number # None /\ object_number[1] # 0
                  THEN object_number[1] ELSE 0
        Numbered(tracked) ==
            IF name \notin DOMAIN tracked.designator_tracker
            THEN Raise(tracked, "KeyError")
            ELSE Ok([tracked EXCEPT
                       !.designator_tracker[name] = set_number(@, number)], None)
        Stored(switched) ==
            IF switched.err = "AssertionError"
            THEN Ok([switched.self EXCEPT
                       !.designator_tracker[switched.self.current_catalog_name] =
                           set_number(@, 0)], None)
            ELSE IF switched.err # "" THEN switched
            ELSE Numbered([switched.self EXCEPT !.object_tracker =
                              Store(@, name, object_number)])
    IN Stored(IF catalog_name # None
              THEN set_current_catalog(self, catalog_name[1])
              ELSE Ok(self, None))

\* the sequences of a list of objects
Sequences(objects) == [i \in DOMAIN objects |-> objects[i].sequence]

\* the end test left out, so that the step goes round through % len
PastEnd_Never(next_index, n) == FALSE

\* whether a step from inside the list of n objects leaves it
PastEnd(next_index, n) == next_index = 0 - 1 \/ next_index >= n

\* next_object(direction, filtered).  Indices count from 0 as in the code;
\* object_ids[i] raises IndexError outside -len..len-1 and counts a negative
\* i from the end.
next_object(self, direction, filtered) ==
    LET this == self.heap[self.current_catalog]
        objects == IF filtered THEN this.filtered_objects ELSE get_objects(this)
        object_ids == Sequences(objects)
        n == Len(object_ids)
        At(i) == IF i >= 0 THEN object_ids[i + 1] ELSE object_ids[n + i + 1]
        InList(i) == 0 - n <= i /\ i < n
        name == self.current_catalog_name
        current_key == self.object_tracker[name]
        designator_ == tracker_get_designator(self, name)
        Mark(number) == [self EXCEPT !.designator_tracker[name] = set_number(@, number)]
        Got(stored) ==
            IF stored.err # "" THEN stored ELSE get_current_object(stored.self)
        Finish(marked, next_key) == Got(set_current_object(marked, next_key, None))
    IN IF name \notin DOMAIN self.object_tracker THEN Raise(self, "KeyError")
       ELSE IF designator_.err # "" THEN Raise(self, designator_.err)
       ELSE IF current_key = None \/ current_key[1] \notin Range(object_ids)
            THEN LET next_index == IF direction = 1 THEN 0 ELSE n - 1
                 IN IF ~InList(next_index) THEN Raise(self, "IndexError")
                    ELSE Finish(Mark(At(next_index)), Some(At(next_index)))
       ELSE LET current_index == IndexOf(object_ids, current_key[1]) - 1
                next_index == current_index + direction
            IN IF PastEnd(next_index, n)
               THEN Finish(Mark(0), None)
               ELSE IF ~InList(next_index % n) THEN Raise(self, "IndexError")
               ELSE Finish(Mark(At(next_index % n)), Some(At(next_index % n)))

\* _select_catalogs: the Catalogs class has no method get, so naming a
\* catalog raises AttributeError
_select_catalogs(self, catalog_names) ==
    IF catalog_names = None THEN Ok(self, <<self.current_catalog>>)
    ELSE IF catalog_names[1] = <<>> THEN Ok(self, <<>>)
    ELSE Raise(self, "AttributeError")

RECURSIVE FilterEach(_, _, _, _)
\* the loop of filter over catalog_list
FilterEach(self, catalog_list, options, state) ==
    IF catalog_list = <<>> THEN Ok(self, None)
    ELSE LET code == Head(catalog_list)
             valued == [self.heap[code] EXCEPT !.catalog_filter =
                           set_values(@, options[1], options[2], options[3],
                                      options[4])]
             filtered == filter_objects(valued, state)
             after == [self EXCEPT !.heap[code] = filtered.self]
         IN IF filtered.err # "" THEN Raise(after, filtered.err)
            ELSE FilterEach(after, Tail(catalog_list), options, state)

\* filter(catalogs): options are the Magnitude, Obj Types, Alt Limit and
\* Observed values of config_options, state is self.shared_state
filter(self, catalog_names, options, state) ==
    LET catalog_list == _select_catalogs(self, catalog_names)
    IN IF catalog_list.err # "" THEN catalog_list
       ELSE FilterEach(self, catalog_list.ret, options, state)

\* get_closest_objects(ra, dec, n, catalogs): filtered_objects is a list,
\* which has no method values, so flattening the first selected catalog
\* raises AttributeError before any object is read; over no catalog at all
\* BallTree is handed no point and raises ValueError
get_closest_objects(self, ra, dec, n, catalog_names) ==
    LET catalog_list == _select_catalogs(self, catalog_names)
    IN IF catalog_list.err # "" THEN catalog_list
       ELSE IF catalog_list.ret # <<>> THEN Raise(self, "AttributeError")
       ELSE Raise(self, "ValueError")

\* CatalogTracker.__init__ over a registry and its Catalog instances
CatalogTracker(registry, instances) ==
    LET listed == get_names(registry)
        made == [catalogs |-> listed.self, heap |-> instances,
                 designator_tracker |->
                     [c \in Range(listed.ret) |->
                         CatalogDesignator(c, instances[c].max_sequence)],
                 object_tracker |-> <<>>,
                 current_catalog_name |-> "", current_catalog |-> ""]
        current == set_current_catalog(made, listed.ret[1])
    IN [current.self EXCEPT !.object_tracker = [c \in Range(listed.ret) |-> None]]

----------------------------------------------------------------------------
(* SpecDesignator: one designator driven by keypad and navigation calls    *)

\* how far increment_number and decrement_number are followed outside
\* 0..10^width - 1
NumberSlack == 2

Digits == 0..9

\* (catalog code, max_sequence) of the catalogs a designator is built for
DesignatorCatalogs ==
    {[code |-> "M", max_sequence |-> 110],
     [code |-> "NGC", max_sequence |-> 9999],
     [code |-> "PUSH", max_sequence |-> 1]}

\* typed: the number spelled by every digit keyed in since construction,
\* followed while nothing but append_number was called and it has at most
\* width + 1 digits
Dirty == 0 - 1

TypedAfter(d) ==
    IF typed # Dirty /\ 10 * typed + d < Pow10(designator.width + 1)
    THEN 10 * typed + d ELSE Dirty

Idle == None

InitDesignator ==
    /\ \E c \in DesignatorCatalogs :
          designator = CatalogDesignator(c.code, c.max_sequence)
    /\ typed = 0
    /\ last = [op |-> "init", arg |-> 0, pre |-> 0]
    /\ catalog_filter = Idle /\ catalog = Idle /\ shared_state = Idle
    /\ catalogs = Idle /\ heap = Idle
    /\ designator_tracker = Idle /\ object_tracker = Idle
    /\ current_catalog_name = Idle /\ current_catalog = Idle
    /\ unfiltered_results = Idle /\ deduplicated = Idle

DesignatorFrame ==
    UNCHANGED <<catalogVars, shared_state, registryVars, trackerVars, dedupVars>>

DesignatorCall(op, arg) ==
    last' = [op |-> op, arg |-> arg, pre |-> designator.object_number]

AppendNumber ==
    \E d \in Digits :
        /\ designator' = append_number(designator, d)
        /\ typed' = TypedAfter(d)
        /\ DesignatorCall("append_number", d)
        /\ DesignatorFrame

SetNumber ==
    \E n \in {0, 1, designator.width} :
        /\ designator' = set_number(designator, n)
        /\ typed' = Dirty
        /\ DesignatorCall("set_number", n)
        /\ DesignatorFrame

ResetNumber ==
    /\ designator' = reset_number(designator)
    /\ typed' = Dirty
    /\ DesignatorCall("reset_number", 0)
    /\ DesignatorFrame

IncrementNumber ==
    /\ designator.object_number < Pow10(designator.width) + NumberSlack
    /\ designator' = increment_number(designator)
    /\ typed' = Dirty
    /\ DesignatorCall("increment_number", 0)
    /\ DesignatorFrame

DecrementNumber ==
    /\ designator.object_number > 0 - NumberSlack
    /\ designator' = decrement_number(designator)
    /\ typed' = Dirty
    /\ DesignatorCall("decrement_number", 0)
    /\ DesignatorFrame

DesignatorNext ==
    \/ AppendNumber
    \/ SetNumber
    \/ ResetNumber
    \/ IncrementNumber
    \/ DecrementNumber

SpecDesignator == InitDesignator /\ [][DesignatorNext]_vars

\* the numbers a designator of this width can show
InRange(n, width) == 0 <= n /\ n <= Pow10(width) - 1

\* C2: append_number(d) on a number n in 0..10^width - 1 leaves
\* (10 * n + d) mod 10^width, the last `width` digits of n followed by d;
\* the digits keyed in since construction leave their last `width` digits,
\* so 1,2,3,4,5 at width 4 leave 2345.
C2_AppendKeepsLastDigits ==
    /\ (last.op = "append_number" /\ InRange(last.pre, designator.width))
          => designator.object_number
               = (10 * last.pre + last.arg) % Pow10(designator.width)
    /\ typed # Dirty
          => designator.object_number = typed % Pow10(designator.width)

C2_Witness ==
    /\ last.op = "append_number"
    /\ designator.width = 4
    /\ typed = 12345
    /\ designator.object_number = 2345

\* C3: after any sequence of append_number, increment_number,
\* decrement_number and reset_number the number lies in 0..10^width - 1.
C3_NumberInRange ==
    InRange(designator.object_number, designator.width)

\* C22: in every state reached by set_number, append_number,
\* increment_number, decrement_number and reset_number, has_number() is true
\* exactly when object_number is not zero; after reset_number it is false.
C22_HasNumberIffNonZero ==
    /\ has_number(designator) <=> designator.object_number # 0
    /\ last.op = "reset_number" => ~has_number(designator)

\* the number part of the field: the decimal number left-padded with "-"
\* when a number is set, fill characters only when none is
NumberPart(self) ==
    IF has_number(self)
    THEN [i \in 1..(self.width - Len(str(self.object_number))) |-> "-"]
         \o str(self.object_number)
    ELSE [i \in 1..self.width |-> "-"]

\* C23: after every operation the field is the catalog name right-aligned
\* to 3 characters, one space, and a number part of exactly `width`
\* characters: the decimal number left-padded with "-" when a number is
\* set, `width` fill characters when none is.
C23_FieldRendersState ==
    /\ designator.field
         = RightAlign(CodeChars(designator.catalog_name), " ", 3) \o <<" ">>
           \o NumberPart(designator)
    /\ Len(NumberPart(designator)) = designator.width

----------------------------------------------------------------------------
(* The sky-position context and the filter option values                   *)

SharedState(solution, location, dt) ==
    [solution |-> solution, location |-> location, datetime |-> dt]

Here == Some([lat |-> 20, lon |-> 0])

\* nothing known yet; located and timed, not solved; solved at two times
Contexts ==
    {SharedState(None, None, None),
     SharedState(None, Here, Some(0)),
     SharedState(Some("solved"), Here, Some(0)),
     SharedState(Some("solved"), Here, Some(30))}

MagnitudeValues == {PyStr("None"), PyNum(6), PyNum(99), PyNum(100)}
TypeValues == {PyList(<<"None">>), PyList(<<"Gx">>), PyList(<<"Gx", "OC">>)}
AltitudeValues == {PyStr("None"), PyNum(10)}
ObservedValues == {PyStr("Any"), PyStr("Yes"), PyStr("No")}

\* a filter value as the configuration supplies it
Configured(self) ==
    /\ self.magnitude_filter \in MagnitudeValues
    /\ self.type_filter \in TypeValues
    /\ self.altitude_filter \in AltitudeValues
    /\ self.observed_filter \in ObservedValues

Mags == {PyNum(5), PyNum(6), PyText(<<"7">>), PyText(<<>>), PyNone}
ObjTypes == {"Gx", "OC", "Nb"}

CompositeObject(id, sequence, object_id, catalog_code, mag, obj_type, logged, dec) ==
    [id |-> id, sequence |-> sequence, object_id |-> object_id,
     catalog_code |-> catalog_code, mag |-> mag, obj_type |-> obj_type,
     logged |-> logged, ra |-> 0, dec |-> dec]

\* the objects apply_filter is tried on
FilterObjects ==
    {CompositeObject(1, 1, 1, "M", mag, obj_type, logged, dec) :
        mag \in Mags, obj_type \in ObjTypes, logged \in BOOLEAN, dec \in {0, 40}}

----------------------------------------------------------------------------
(* SpecFilter: one CatalogFilter, its values set and its predicate applied *)

InitFilter ==
    /\ catalog_filter = CatalogFilter(PyNone, PyNone, PyNone, PyNone)
    /\ shared_state = SharedState(None, None, None)
    /\ last = [op |-> "init", obj |-> None, ret |-> ""]
    /\ designator = Idle /\ typed = Idle /\ catalog = Idle
    /\ catalogs = Idle /\ heap = Idle
    /\ designator_tracker = Idle /\ object_tracker = Idle
    /\ current_catalog_name = Idle /\ current_catalog = Idle
    /\ unfiltered_results = Idle /\ deduplicated = Idle

FilterFrame ==
    UNCHANGED <<designatorVars, catalog, registryVars, trackerVars, dedupVars>>

FilterSetValues ==
    \E m \in MagnitudeValues, t \in TypeValues, a \in AltitudeValues,
       o \in ObservedValues :
        /\ catalog_filter' = set_values(catalog_filter, m, t, a, o)
        /\ last' = [op |-> "set_values", obj |-> None, ret |-> ""]
        /\ UNCHANGED shared_state
        /\ FilterFrame

FilterCalcFastAa ==
    /\ catalog_filter' = calc_fast_aa(catalog_filter, shared_state).self
    /\ last' = [op |-> "calc_fast_aa", obj |-> None, ret |-> ""]
    /\ UNCHANGED shared_state
    /\ FilterFrame

FilterPublish ==
    \E state \in Contexts :
        /\ shared_state' = state
        /\ last' = [op |-> "publish", obj |-> None, ret |-> ""]
        /\ UNCHANGED catalog_filter
        /\ FilterFrame

FilterApplyFilter ==
    \E obj \in FilterObjects :
        /\ last' = [op |-> "apply_filter", obj |-> Some(obj),
                    ret |-> apply_filter(catalog_filter, obj)]
        /\ UNCHANGED <<catalog_filter, shared_state>>
        /\ FilterFrame

FilterNext ==
    \/ FilterSetValues
    \/ FilterCalcFastAa
    \/ FilterPublish
    \/ FilterApplyFilter

SpecFilter == InitFilter /\ [][FilterNext]_vars

\* the magnitude an object is judged by: its own when numeric, else 99
JudgedMagnitude(obj) ==
    IF obj.mag.kind = "num" THEN obj.mag.val
    ELSE IF obj.mag = PyText(<<"7">>) THEN 7 ELSE 99

MagnitudeAccepts(self, obj) ==
    IsStr(self.magnitude_filter, "None")
    \/ JudgedMagnitude(obj) < self.magnitude_filter.val

TypeAccepts(self, obj) ==
    IsList(self.type_filter, <<"None">>)
    \/ \E i \in DOMAIN self.type_filter.val : self.type_filter.val[i] = obj.obj_type

ObservedAccepts(self, obj) ==
    IsStr(self.observed_filter, "Any")
    \/ (obj.logged <=> IsStr(self.observed_filter, "Yes"))

AltitudeOutOfPlay(self) ==
    IsStr(self.altitude_filter, "None") \/ self.fast_aa = None

\* C10: with altitude filtering out of play and the values the configuration
\* supplies, apply_filter accepts an object exactly when the magnitude, the
\* type and the observed predicate all accept it; in particular the observed
\* check admits nothing that the magnitude or the type predicate rejects.
C10_AcceptsIffAllPredicates ==
    (/\ last.op = "apply_filter"
     /\ Configured(catalog_filter)
     /\ AltitudeOutOfPlay(catalog_filter))
    => /\ last.ret \in {"True", "False"}
       /\ last.ret = "True"
            <=> /\ MagnitudeAccepts(catalog_filter, last.obj[1])
                /\ TypeAccepts(catalog_filter, last.obj[1])
                /\ ObservedAccepts(catalog_filter, last.obj[1])

\* an observed check that matches, on an object the magnitude predicate rejects
C10_Witness ==
    /\ last.op = "apply_filter"
    /\ Configured(catalog_filter)
    /\ AltitudeOutOfPlay(catalog_filter)
    /\ IsStr(catalog_filter.observed_filter, "Yes")
    /\ last.obj[1].logged
    /\ ~MagnitudeAccepts(catalog_filter, last.obj[1])
    /\ TypeAccepts(catalog_filter, last.obj[1])
    /\ last.ret = "False"

\* a magnitude that is absent (None) or a text that is no number
MagnitudeUnknown(obj) == obj.mag = PyNone \/ obj.mag = PyText(<<>>)

AltitudeAccepts(self, obj) ==
    AltitudeOutOfPlay(self)
    \/ obj.dec - self.fast_aa[1].lat + self.fast_aa[1].dt >= self.altitude_filter.val

\* C24: apply_filter on an object whose magnitude is absent or not numeric
\* does what it does on the same object with magnitude 99: with the values
\* the configuration supplies it does not raise, a numeric magnitude
\* ceiling of at most 99 rejects the object, and with the magnitude filter
\* "None" the object is accepted exactly when the altitude, the type and
\* the observed predicate accept it.
C24_UnknownMagnitudeIs99 ==
    (last.op = "apply_filter" /\ MagnitudeUnknown(last.obj[1]))
    => /\ last.ret = apply_filter(catalog_filter,
                                   [last.obj[1] EXCEPT !.mag = PyNum(99)])
       /\ Configured(catalog_filter)
            => /\ last.ret \in {"True", "False"}
               /\ (/\ catalog_filter.magnitude_filter.kind = "num"
                   /\ catalog_filter.magnitude_filter.val <= 99)
                     => last.ret = "False"
               /\ IsStr(catalog_filter.magnitude_filter, "None")
                     => (last.ret = "True"
                           <=> /\ AltitudeAccepts(catalog_filter, last.obj[1])
                               /\ TypeAccepts(catalog_filter, last.obj[1])
                               /\ ObservedAccepts(catalog_filter, last.obj[1]))

\* an object without a magnitude that only the ceiling of 99 rejects
C24_Witness ==
    /\ last.op = "apply_filter"
    /\ last.obj[1].mag = PyNone
    /\ catalog_filter.magnitude_filter = PyNum(99)
    /\ Configured(catalog_filter)
    /\ AltitudeAccepts(catalog_filter, last.obj[1])
    /\ TypeAccepts(catalog_filter, last.obj[1])
    /\ ObservedAccepts(catalog_filter, last.obj[1])
    /\ last.ret = "False"

----------------------------------------------------------------------------
(* SpecCatalog: one Catalog, objects added to it and its filter run        *)

\* the longest object list followed
MaxObjects == 3

\* objects offered to add_object and add_objects; two of them repeat the id
\* or the sequence of another one
ObjectPool ==
    {CompositeObject(1, 1, 11, "M", PyNum(5), "Gx", TRUE, 40),
     CompositeObject(2, 2, 12, "M", PyNum(6), "OC", FALSE, 0),
     CompositeObject(3, 3, 13, "M", PyText(<<>>), "Gx", FALSE, 40),
     CompositeObject(1, 4, 11, "M", PyNum(5), "Gx", TRUE, 0),
     CompositeObject(4, 2, 14, "M", PyNone, "Nb", TRUE, 40)}

\* the option values a catalog's filter is set to
CatalogPresets ==
    {<<PyStr("None"), PyList(<<"None">>), PyStr("None"), PyStr("Any")>>,
     <<PyNum(6), PyList(<<"None">>), PyStr("None"), PyStr("Any")>>,
     <<PyStr("None"), PyList(<<"Gx">>), PyNum(10), PyStr("Yes")>>,
     <<PyNum(100), PyList(<<"Gx", "OC">>), PyNum(10), PyStr("No")>>}

Batches ==
    {<<>>} \cup {<<a>> : a \in ObjectPool}
           \cup {<<a, b>> : a \in ObjectPool, b \in ObjectPool}

InitCatalog ==
    /\ catalog = Catalog("M", 110, "Messier")
    /\ shared_state = SharedState(None, None, None)
    /\ last = [op |-> "init", err |-> "", repeat |-> FALSE, before |-> <<>>]
    /\ designator = Idle /\ typed = Idle /\ catalog_filter = Idle
    /\ catalogs = Idle /\ heap = Idle
    /\ designator_tracker = Idle /\ object_tracker = Idle
    /\ current_catalog_name = Idle /\ current_catalog = Idle
    /\ unfiltered_results = Idle /\ deduplicated = Idle

CatalogFrame ==
    UNCHANGED <<designatorVars, catalog_filter, registryVars, trackerVars,
                dedupVars>>

CatalogCall(op, err) ==
    last' = [op |-> op, err |-> err, repeat |-> FALSE, before |-> <<>>]

CatalogAddObject ==
    \E obj \in ObjectPool :
        /\ Len(catalog.objects) < MaxObjects
        /\ catalog' = add_object(catalog, obj)
        /\ CatalogCall("add_object", "")
        /\ UNCHANGED shared_state
        /\ CatalogFrame

CatalogAddObjects ==
    \E objects \in Batches :
        /\ Len(catalog.objects) + Len(objects) <= MaxObjects
        /\ catalog' = add_objects(catalog, objects)
        /\ CatalogCall("add_objects", "")
        /\ UNCHANGED shared_state
        /\ CatalogFrame

CatalogSetValues ==
    \E v \in CatalogPresets :
        /\ catalog' = [catalog EXCEPT !.catalog_filter =
                          set_values(catalog.catalog_filter, v[1], v[2], v[3], v[4])]
        /\ CatalogCall("set_values", "")
        /\ UNCHANGED shared_state
        /\ CatalogFrame

CatalogPublish ==
    \E state \in Contexts :
        /\ shared_state' = state
        /\ CatalogCall("publish", "")
        /\ UNCHANGED catalog
        /\ CatalogFrame

\* repeat: the call before this one was filter_objects too, so neither the
\* context, nor the filter values, nor the objects changed in between
CatalogFilterObjects ==
    \E called \in {filter_objects(catalog, shared_state)} :
       /\ catalog' = called.self
       /\ last' = [op |-> "filter_objects", err |-> called.err,
                   repeat |-> last.op = "filter_objects",
                   before |-> catalog.filtered_objects]
       /\ UNCHANGED shared_state
       /\ CatalogFrame

CatalogNext ==
    \/ CatalogAddObject
    \/ CatalogAddObjects
    \/ CatalogSetValues
    \/ CatalogPublish
    \/ CatalogFilterObjects

SpecCatalog == InitCatalog /\ [][CatalogNext]_vars

RECURSIVE IsSubList(_, _)
\* sub is list with some of its elements left out, the others in their order
IsSubList(sub, list) ==
    IF sub = <<>> THEN TRUE
    ELSE IF list = <<>> THEN FALSE
    ELSE IF Head(sub) = Head(list) THEN IsSubList(Tail(sub), Tail(list))
    ELSE IsSubList(sub, Tail(list))

\* C21: in every state every element of filtered_objects is an object of
\* the base list; a filter_objects call leaves the base list and both
\* indices as they were, and when it returns, filtered_objects is the base
\* list with some objects left out, the others in their order.
C21_FilterKeepsBaseList ==
    /\ [](Range(catalog.filtered_objects) \subseteq Range(catalog.objects))
    /\ [][last'.op = "filter_objects" =>
            /\ catalog'.objects = catalog.objects
            /\ catalog'.id_to_pos = catalog.id_to_pos
            /\ catalog'.sequence_to_pos = catalog.sequence_to_pos
            /\ last'.err = "" =>
                  IsSubList(catalog'.filtered_objects, catalog'.objects)]_vars

\* a filter call that kept one of three objects, and an object added after it
C21_Witness ==
    /\ last.op = "add_object"
    /\ ~catalog.shares_objects
    /\ Len(catalog.objects) = 3
    /\ Len(catalog.filtered_objects) = 1

\* the ids and sequences looked up; 0 and 5 are those of no object offered
LookupKeys == 0..5

\* C20: in every state of a catalog, also before any object was added,
\* get_object_by_id with an id that no object has and get_object_by_sequence
\* with a sequence that no object has raise the lookup error of a missing
\* key.
C20_MissingKeyIsNotFound ==
    \A key \in LookupKeys :
       /\ (\A i \in DOMAIN catalog.objects : catalog.objects[i].id # key)
            => get_object_by_id(catalog, key).err = "KeyError"
       /\ (\A i \in DOMAIN catalog.objects : catalog.objects[i].sequence # key)
            => get_object_by_sequence(catalog, key).err = "KeyError"

Distinct(keys) == \A i, j \in DOMAIN keys : keys[i] = keys[j] => i = j

\* C1: while the objects added have pairwise distinct ids and pairwise
\* distinct sequences, get_object_by_id(x.id) and
\* get_object_by_sequence(x.sequence) return x for every object x of the list.
C1_IndicesAgreeWithList ==
    (/\ Distinct(IdKeys(catalog.objects))
     /\ Distinct(SequenceKeys(catalog.objects)))
    => \A i \in DOMAIN catalog.objects :
         LET x == catalog.objects[i]
         IN /\ get_object_by_id(catalog, x.id) = [err |-> "", ret |-> Some(x)]
            /\ get_object_by_sequence(catalog, x.sequence)
                 = [err |-> "", ret |-> Some(x)]

\* three distinct objects, added out of sequence order
C1_Witness ==
    /\ last.op = "add_object"
    /\ Len(catalog.objects) = 3
    /\ Distinct(IdKeys(catalog.objects))
    /\ Distinct(SequenceKeys(catalog.objects))
    /\ catalog.objects[1].id = 2
    /\ get_object_by_id(catalog, 2).ret = Some(catalog.objects[1])

\* C9: a filter_objects call that directly follows another one leaves
\* filtered_objects as the first call left it.
C9_FilterIdempotent ==
    (last.op = "filter_objects" /\ last.repeat)
    => catalog.filtered_objects = last.before

\* the second of two calls, the first of which dropped an object
C9_Witness ==
    /\ last.op = "filter_objects" /\ last.repeat /\ last.err = ""
    /\ catalog.filtered_objects # <<>>
    /\ Len(catalog.filtered_objects) < Len(catalog.objects)
    /\ shared_state.solution # None

\* the context supplies a location, a timestamp and a pointing solution
Complete(state) ==
    Truthy(state.location) /\ Truthy(state.datetime) /\ Truthy(state.solution)

\* the altitude of obj under the transform of a complete context
AltitudeIn(state, obj) ==
    radec_to_altaz(FastAltAz(state.location[1].lat, state.location[1].lon,
                             state.datetime[1]),
                   obj.ra, obj.dec)

\* C11: after filter_objects with a numeric altitude floor and a complete
\* context, no object of filtered_objects has an altitude below the floor.
C11_AltitudeFloorApplied ==
    (/\ last.op = "filter_objects"
     /\ catalog.catalog_filter.altitude_filter.kind = "num"
     /\ Complete(shared_state))
    => \A i \in DOMAIN catalog.filtered_objects :
          AltitudeIn(shared_state, catalog.filtered_objects[i])
              >= catalog.catalog_filter.altitude_filter.val

\* C12: after filter_objects with configured values and a context that lacks
\* location, timestamp or solution, the call raised nothing and
\* filtered_objects is what the same call gives with the altitude value "None".
C12_NoContextNoAltitude ==
    (/\ last.op = "filter_objects"
     /\ Configured(catalog.catalog_filter)
     /\ ~Complete(shared_state))
    => /\ last.err = ""
       /\ catalog.filtered_objects =
             apply([catalog.catalog_filter EXCEPT !.altitude_filter = PyStr("None")],
                   shared_state, catalog.objects).ret

\* located and timed but not solved, a floor of 10, and an object kept that a
\* solved context would put at altitude -20
C12_Witness ==
    /\ last.op = "filter_objects" /\ last.err = ""
    /\ catalog.catalog_filter.altitude_filter = PyNum(10)
    /\ shared_state.location # None /\ shared_state.datetime # None
    /\ shared_state.solution = None
    /\ \E i \in DOMAIN catalog.filtered_objects :
          catalog.filtered_objects[i].dec - shared_state.location[1].lat
              + shared_state.datetime[1] < 10

----------------------------------------------------------------------------
(* SpecInterleaving: one filter_objects call taken step by step, while the *)
(* capture/solve pipeline publishes into the shared state                  *)

\* the catalogs filtered: their objects and the values of their filter
InterleavedObjects ==
    {<<CompositeObject(1, 1, 11, "M", PyNum(5), "Gx", TRUE, 40),
       CompositeObject(2, 2, 12, "M", PyNum(6), "OC", FALSE, 0),
       CompositeObject(3, 3, 13, "M", PyText(<<>>), "Gx", TRUE, 0)>>,
     <<CompositeObject(1, 4, 11, "M", PyNum(5), "Gx", TRUE, 0),
       CompositeObject(4, 2, 14, "M", PyNone, "Nb", TRUE, 40)>>}

InterleavedCatalog(objects, v) ==
    [add_objects(Catalog("M", 110, "Messier"), objects)
        EXCEPT !.catalog_filter = CatalogFilter(v[1], v[2], v[3], v[4])]

\* the locals of a call: the three values read, the list given to apply,
\* the place in it and the objects kept so far
NoCall ==
    [pc |-> "idle", solution |-> None, location |-> None, dt |-> None,
     objects |-> <<>>, index |-> 1, kept |-> <<>>, err |-> "",
     returned |-> FALSE]

\* the values a call has read, as one context
ValuesRead(call) == SharedState(call.solution, call.location, call.dt)

\* one turn of the list comprehension that calculates the transform again
\* from the shared state for the object it looks at
apply_object_Rereads(self, call) ==
    LET obj == call.objects[call.index]
        verdict == apply_filter(calc_fast_aa(self, shared_state).self, obj)
    IN IF verdict \notin {"True", "False"}
       THEN [call EXCEPT !.pc = "idle", !.err = verdict]
       ELSE [call EXCEPT !.index = call.index + 1,
                         !.kept = IF verdict = "True" THEN Append(call.kept, obj)
                                  ELSE call.kept]

\* one turn of [obj for obj in objects if self.apply_filter(obj)]
apply_object(self, call) ==
    LET obj == call.objects[call.index]
        verdict == apply_filter(self, obj)
    IN IF verdict \notin {"True", "False"}
       THEN [call EXCEPT !.pc = "idle", !.err = verdict]
       ELSE [call EXCEPT !.index = call.index + 1,
                         !.kept = IF verdict = "True" THEN Append(call.kept, obj)
                                  ELSE call.kept]

InitInterleaving ==
    /\ \E objects \in InterleavedObjects, v \in CatalogPresets :
          catalog = InterleavedCatalog(objects, v)
    /\ shared_state = SharedState(None, None, None)
    /\ last = NoCall
    /\ designator = Idle /\ typed = Idle /\ catalog_filter = Idle
    /\ catalogs = Idle /\ heap = Idle
    /\ designator_tracker = Idle /\ object_tracker = Idle
    /\ current_catalog_name = Idle /\ current_catalog = Idle
    /\ unfiltered_results = Idle /\ deduplicated = Idle

InterleavingFrame ==
    UNCHANGED <<designatorVars, catalog_filter, registryVars, trackerVars,
                dedupVars>>

\* the publisher replaces one shared value at a time
PublishSolution ==
    /\ shared_state # Idle
    /\ \E v \in {None, Some("solved")} :
          shared_state' = [shared_state EXCEPT !.solution = v]
    /\ UNCHANGED <<catalog, last>>
    /\ InterleavingFrame

PublishLocation ==
    /\ shared_state # Idle
    /\ \E v \in {None, Here} :
          shared_state' = [shared_state EXCEPT !.location = v]
    /\ UNCHANGED <<catalog, last>>
    /\ InterleavingFrame

PublishDatetime ==
    /\ shared_state # Idle
    /\ \E v \in {None, Some(0), Some(30)} :
          shared_state' = [shared_state EXCEPT !.datetime = v]
    /\ UNCHANGED <<catalog, last>>
    /\ InterleavingFrame

\* filter_objects is called: apply gets the object list
BeginFilterObjects ==
    /\ last.pc = "idle"
    /\ last' = [NoCall EXCEPT !.pc = "solution", !.objects = get_objects(catalog)]
    /\ UNCHANGED <<catalog, shared_state>>
    /\ InterleavingFrame

ReadSolution ==
    /\ last.pc = "solution"
    /\ last' = [last EXCEPT !.solution = shared_state.solution,
                            !.pc = "location"]
    /\ UNCHANGED <<catalog, shared_state>>
    /\ InterleavingFrame

ReadLocation ==
    /\ last.pc = "location"
    /\ last' = [last EXCEPT !.location = shared_state.location,
                            !.pc = "datetime"]
    /\ UNCHANGED <<catalog, shared_state>>
    /\ InterleavingFrame

ReadDatetime ==
    /\ last.pc = "datetime"
    /\ last' = [last EXCEPT !.dt = shared_state.datetime, !.pc = "transform"]
    /\ UNCHANGED <<catalog, shared_state>>
    /\ InterleavingFrame

\* the rest of calc_fast_aa and the assignment of what it returned
StoreTransform ==
    /\ last.pc = "transform"
    /\ \E called \in {calc_fast_aa(catalog.catalog_filter, ValuesRead(last))} :
          catalog' = [catalog EXCEPT !.catalog_filter =
                         [called.self EXCEPT !.fast_aa = called.ret]]
    /\ last' = [last EXCEPT !.pc = "objects"]
    /\ UNCHANGED shared_state
    /\ InterleavingFrame

EvaluateObject ==
    /\ last.pc = "objects"
    /\ last.index <= Len(last.objects)
    /\ last' = apply_object(catalog.catalog_filter, last)
    /\ UNCHANGED <<catalog, shared_state>>
    /\ InterleavingFrame

\* apply returns its list; filter_objects stores it and the time
ReturnFilterObjects ==
    /\ last.pc = "objects"
    /\ last.index > Len(last.objects)
    /\ catalog' = [catalog EXCEPT !.filtered_objects = last.kept,
                                  !.shares_objects = FALSE,
                                  !.last_filtered = 1]
    /\ last' = [last EXCEPT !.pc = "idle", !.returned = TRUE]
    /\ UNCHANGED shared_state
    /\ InterleavingFrame

FilterObjectsStep ==
    \/ BeginFilterObjects
    \/ ReadSolution
    \/ ReadLocation
    \/ ReadDatetime
    \/ StoreTransform
    \/ EvaluateObject
    \/ ReturnFilterObjects

InterleavingNext ==
    \/ PublishSolution
    \/ PublishLocation
    \/ PublishDatetime
    \/ BeginFilterObjects
    \/ ReadSolution
    \/ ReadLocation
    \/ ReadDatetime
    \/ StoreTransform
    \/ EvaluateObject
    \/ ReturnFilterObjects

SpecInterleaving == InitInterleaving /\ [][InterleavingNext]_vars

\* C25: with the publisher replacing the shared values between any two
\* steps of a filter_objects call, the call can always take its next step
\* (it waits for nothing), no step of it changes the shared state, the
\* values it read do not change once the first object is evaluated, and
\* the list it returns is the one an undisturbed call returns for the
\* values it read, whatever was published after the reads.
C25_CallUsesValuesRead ==
    /\ [](ENABLED FilterObjectsStep)
    /\ [](last.returned =>
            catalog.filtered_objects
               = apply(catalog.catalog_filter, ValuesRead(last), last.objects).ret)
    /\ [][/\ last' # last => shared_state' = shared_state
          /\ last.pc = "objects" => ValuesRead(last') = ValuesRead(last)]_vars

\* a call that read a complete context with an altitude floor set, has
\* returned some of the objects, and a context published after its reads
C25_Witness ==
    /\ last.returned
    /\ ValuesRead(last) = SharedState(Some("solved"), Here, Some(0))
    /\ shared_state = SharedState(Some("solved"), Here, Some(30))
    /\ catalog.catalog_filter.altitude_filter = PyNum(10)
    /\ Len(catalog.filtered_objects) > 0
    /\ Len(catalog.filtered_objects) < Len(catalog.objects)

----------------------------------------------------------------------------
(* CatalogTracker._deduplicate                                             *)

\* the position of the entry of deduplicated_results with this object_id
ExistingIndex(deduplicated_results, object_id) ==
    CHOOSE i \in DOMAIN deduplicated_results :
        /\ deduplicated_results[i].object_id = object_id
        /\ \A j \in 1..(i - 1) : deduplicated_results[j].object_id # object_id

\* Replaces with NGC taking the place of every entry that is not NGC
Replaces_NgcOverM(obj, existing_obj) ==
    \/ obj.catalog_code = "M" /\ existing_obj.catalog_code # "M"
    \/ obj.catalog_code = "NGC" /\ existing_obj.catalog_code # "NGC"

\* whether obj takes the place of the entry kept so far
Replaces(obj, existing_obj) ==
    \/ obj.catalog_code = "M" /\ existing_obj.catalog_code # "M"
    \/ obj.catalog_code = "NGC" /\ existing_obj.catalog_code \notin {"M", "NGC"}

\* list without its element at position i
Without(list, i) == SubSeq(list, 1, i - 1) \o SubSeq(list, i + 1, Len(list))

RECURSIVE DeduplicateFrom_MovesReplacement(_, _)
\* the loop with a replacing entry put at the end, the replaced one removed
DeduplicateFrom_MovesReplacement(deduplicated_results, remaining) ==
    IF remaining = <<>> THEN deduplicated_results
    ELSE LET obj == Head(remaining)
             seen_ids == {deduplicated_results[i].object_id :
                             i \in DOMAIN deduplicated_results}
         IN IF obj.object_id \notin seen_ids
            THEN DeduplicateFrom_MovesReplacement(
                   Append(deduplicated_results, obj), Tail(remaining))
            ELSE LET existing_obj_index ==
                         ExistingIndex(deduplicated_results, obj.object_id)
                     existing_obj == deduplicated_results[existing_obj_index]
                 IN IF Replaces(obj, existing_obj)
                    THEN DeduplicateFrom_MovesReplacement(
                           Append(Without(deduplicated_results, existing_obj_index),
                                  obj),
                           Tail(remaining))
                    ELSE DeduplicateFrom_MovesReplacement(deduplicated_results,
                                                          Tail(remaining))

RECURSIVE DeduplicateFrom(_, _)
\* the loop: deduplicated_results so far, and the entries still to visit
DeduplicateFrom(deduplicated_results, remaining) ==
    IF remaining = <<>> THEN deduplicated_results
    ELSE LET obj == Head(remaining)
             seen_ids == {deduplicated_results[i].object_id :
                             i \in DOMAIN deduplicated_results}
         IN IF obj.object_id \notin seen_ids
            THEN DeduplicateFrom(Append(deduplicated_results, obj), Tail(remaining))
            ELSE LET existing_obj_index ==
                         ExistingIndex(deduplicated_results, obj.object_id)
                     existing_obj == deduplicated_results[existing_obj_index]
                 IN IF Replaces(obj, existing_obj)
                    THEN DeduplicateFrom(
                           [deduplicated_results EXCEPT ![existing_obj_index] = obj],
                           Tail(remaining))
                    ELSE DeduplicateFrom(deduplicated_results, Tail(remaining))

_deduplicate(results) == DeduplicateFrom(<<>>, results)

----------------------------------------------------------------------------
(* SpecDedup: _deduplicate applied to ranked lists                         *)

\* the longest ranked list followed
MaxRanked == 3

\* the same sky objects (object_id) under several catalogs and sequences
RankedEntries ==
    {CompositeObject(object_id, sequence, object_id, code, PyNum(5), "Gx", FALSE, 0) :
        object_id \in {1, 2}, sequence \in {1, 2}, code \in {"M", "NGC", "IC"}}

RankedLists ==
    UNION {[1..n -> RankedEntries] : n \in 0..MaxRanked}

InitDedup ==
    /\ unfiltered_results \in RankedLists
    /\ deduplicated = None
    /\ last = [op |-> "init"]
    /\ designator = Idle /\ typed = Idle
    /\ catalog_filter = Idle /\ catalog = Idle /\ shared_state = Idle
    /\ catalogs = Idle /\ heap = Idle
    /\ designator_tracker = Idle /\ object_tracker = Idle
    /\ current_catalog_name = Idle /\ current_catalog = Idle

Deduplicate ==
    /\ last.op = "init"
    /\ deduplicated' = _deduplicate(unfiltered_results)
    /\ last' = [op |-> "_deduplicate"]
    /\ UNCHANGED <<designatorVars, catalogVars, shared_state, registryVars,
                   trackerVars, unfiltered_results>>

DedupNext ==
    \/ Deduplicate

SpecDedup == InitDedup /\ [][DedupNext]_vars

\* the entries of a list with this object_id
EntriesOf(list, object_id) ==
    {i \in DOMAIN list : list[i].object_id = object_id}

First(S) == CHOOSE i \in S : \A j \in S : i <= j

\* C6: the result holds at most one entry per object_id, and for every
\* object_id of the input the entry kept is an input entry of that object_id:
\* one with code "M" if the input has one, otherwise one with code "NGC" if
\* the input has one, otherwise the first entry of that object_id.
C6_DedupPrecedence ==
    last.op = "_deduplicate" =>
      /\ \A i, j \in DOMAIN deduplicated :
           deduplicated[i].object_id = deduplicated[j].object_id => i = j
      /\ \A i \in DOMAIN deduplicated :
           EntriesOf(unfiltered_results, deduplicated[i].object_id) # {}
      /\ \A k \in DOMAIN unfiltered_results :
           LET object_id == unfiltered_results[k].object_id
               entries == EntriesOf(unfiltered_results, object_id)
               codes == {unfiltered_results[i].catalog_code : i \in entries}
           IN \E i \in DOMAIN deduplicated :
                /\ deduplicated[i].object_id = object_id
                /\ \E e \in entries : unfiltered_results[e] = deduplicated[i]
                /\ "M" \in codes => deduplicated[i].catalog_code = "M"
                /\ ("M" \notin codes /\ "NGC" \in codes)
                     => deduplicated[i].catalog_code = "NGC"
                /\ codes \cap {"M", "NGC"} = {}
                     => deduplicated[i] = unfiltered_results[First(entries)]

\* one object ranked as IC, then NGC, then M: the M entry is the one kept
C6_Witness ==
    /\ last.op = "_deduplicate"
    /\ Len(unfiltered_results) = 3
    /\ unfiltered_results[1].catalog_code = "IC"
    /\ unfiltered_results[2].catalog_code = "NGC"
    /\ unfiltered_results[3].catalog_code = "M"
    /\ \A i \in 1..3 : unfiltered_results[i].object_id = 1
    /\ deduplicated = <<unfiltered_results[3]>>

\* the ranks at which an object_id occurs for the first time, in order
FirstRanks(list) ==
    {k \in DOMAIN list : \A j \in 1..(k - 1) : list[j].object_id # list[k].object_id}

\* C26: the result lists the object_ids in the order of their first
\* occurrence in the input: its i-th entry has the object_id of the i-th
\* first occurrence, also when a later "M" or "NGC" entry has replaced the
\* entry kept, so entries of different object_ids keep their relative order.
C26_DedupKeepsRankOrder ==
    last.op = "_deduplicate" =>
      /\ Len(deduplicated) = Cardinality(FirstRanks(unfiltered_results))
      /\ \A i \in DOMAIN deduplicated :
           \E k \in FirstRanks(unfiltered_results) :
              /\ Cardinality({f \in FirstRanks(unfiltered_results) : f <= k}) = i
              /\ deduplicated[i].object_id = unfiltered_results[k].object_id

\* object 1 ranked first as IC and last as M, object 2 in between: the M
\* entry stands before the entry of object 2
C26_Witness ==
    /\ last.op = "_deduplicate"
    /\ Len(unfiltered_results) = 3
    /\ unfiltered_results[1].object_id = 1 /\ unfiltered_results[1].catalog_code = "IC"
    /\ unfiltered_results[2].object_id = 2
    /\ unfiltered_results[3].object_id = 1 /\ unfiltered_results[3].catalog_code = "M"
    /\ deduplicated = <<unfiltered_results[3], unfiltered_results[2]>>

----------------------------------------------------------------------------
(* SpecTracker: a CatalogTracker over a built registry, driven by the      *)
(* navigation and filter calls of the UI                                   *)

\* the catalogs the builder made: M with sequences 5, 12, 47; NGC with two
\* objects that no magnitude or type filter lets pass; IC without objects
BuiltCatalog(code) ==
    CASE code = "M" ->
           add_objects(Catalog("M", 110, "Messier"),
               <<CompositeObject(1, 5, 11, "M", PyNum(5), "Gx", TRUE, 40),
                 CompositeObject(3, 47, 13, "M", PyNum(5), "Gx", FALSE, 40),
                 CompositeObject(2, 12, 12, "M", PyNum(6), "OC", FALSE, 0)>>)
      [] code = "NGC" ->
           add_objects(Catalog("NGC", 7840, "New General Catalogue"),
               <<CompositeObject(4, 5, 11, "NGC", PyNum(8), "Nb", FALSE, 40),
                 CompositeObject(5, 12, 14, "NGC", PyText(<<>>), "Nb", TRUE, 0)>>)
      [] code = "IC" ->
           add_objects(Catalog("IC", 5386, "Index Catalogue"), <<>>)
      [] code = "C" ->
           add_objects(Catalog("C", 109, "Caldwell"),
               <<CompositeObject(6, 12, 15, "C", PyNum(5), "Gx", FALSE, 40)>>)

BuiltRegistries == {<<"M", "NGC">>, <<"M", "IC">>}

TrackerOptions ==
    {<<PyStr("None"), PyList(<<"None">>), PyStr("None"), PyStr("Any")>>,
     <<PyNum(6), PyList(<<"None">>), PyStr("None"), PyStr("Any")>>,
     <<PyStr("None"), PyList(<<"Gx">>), PyNum(10), PyStr("Yes")>>}

TrackerContexts ==
    {SharedState(None, None, None), SharedState(Some("solved"), Here, Some(0))}

\* what the UI passes to set_current_catalog and set_current_object
CatalogNames == {"M", "NGC", "IC", "PUSH"}
ObjectNumbers == {None, Some(12), Some(13)}

TrackerSelf ==
    [catalogs |-> catalogs, heap |-> heap,
     designator_tracker |-> designator_tracker, object_tracker |-> object_tracker,
     current_catalog_name |-> current_catalog_name,
     current_catalog |-> current_catalog]

TrackerIs(self) ==
    /\ catalogs = self.catalogs
    /\ heap = self.heap
    /\ designator_tracker = self.designator_tracker
    /\ object_tracker = self.object_tracker
    /\ current_catalog_name = self.current_catalog_name
    /\ current_catalog = self.current_catalog

TrackerBecomes(self) ==
    /\ catalogs' = self.catalogs
    /\ heap' = self.heap
    /\ designator_tracker' = self.designator_tracker
    /\ object_tracker' = self.object_tracker
    /\ current_catalog_name' = self.current_catalog_name
    /\ current_catalog' = self.current_catalog

TrackerCall(op, name, direction, filtered, called) ==
    last' = [op |-> op, name |-> name, direction |-> direction,
             filtered |-> filtered, err |-> called.err, ret |-> called.ret,
             pre_key |-> IF op = "next_object"
                            /\ current_catalog_name \in DOMAIN object_tracker
                         THEN object_tracker[current_catalog_name] ELSE None,
             pre_name |-> IF op \in {"next_catalog", "previous_catalog"}
                          THEN current_catalog_name ELSE ""]

\* the state after CatalogTracker.__init__ over one of these registries
TrackerBuiltOver(registries) ==
    /\ \E list \in registries :
          TrackerIs(CatalogTracker(Catalogs(list),
                                   [c \in Range(list) |-> BuiltCatalog(c)]))
    /\ shared_state = SharedState(None, None, None)
    /\ last = [op |-> "init", name |-> "", direction |-> 0, filtered |-> FALSE,
               err |-> "", ret |-> None, pre_key |-> None, pre_name |-> ""]
    /\ designator = Idle /\ typed = Idle
    /\ catalog_filter = Idle /\ catalog = Idle
    /\ unfiltered_results = Idle /\ deduplicated = Idle

InitTracker == TrackerBuiltOver(BuiltRegistries)

TrackerFrame == UNCHANGED <<designatorVars, catalogVars, dedupVars>>

SetCurrentCatalog ==
    \E name \in CatalogNames :
        \E called \in {set_current_catalog(TrackerSelf, name)} :
           /\ TrackerBecomes(called.self)
           /\ TrackerCall("set_current_catalog", name, 0, FALSE, called)
           /\ UNCHANGED shared_state
           /\ TrackerFrame

NextCatalog ==
    \E called \in {next_catalog(TrackerSelf, 1)} :
       /\ TrackerBecomes(called.self)
       /\ TrackerCall("next_catalog", "", 1, FALSE, called)
       /\ UNCHANGED shared_state
       /\ TrackerFrame

PreviousCatalog ==
    \E called \in {previous_catalog(TrackerSelf)} :
       /\ TrackerBecomes(called.self)
       /\ TrackerCall("previous_catalog", "", 0 - 1, FALSE, called)
       /\ UNCHANGED shared_state
       /\ TrackerFrame

NextObject ==
    \E direction \in {1, 0 - 1}, filtered \in BOOLEAN :
        \E called \in {next_object(TrackerSelf, direction, filtered)} :
           /\ TrackerBecomes(called.self)
           /\ TrackerCall("next_object", "", direction, filtered, called)
           /\ UNCHANGED shared_state
           /\ TrackerFrame

SetCurrentObject ==
    \E object_number \in ObjectNumbers, name \in {"", "M", "PUSH"} :
        \E called \in {set_current_object(TrackerSelf, object_number,
                          IF name = "" THEN None ELSE Some(name))} :
           /\ TrackerBecomes(called.self)
           /\ TrackerCall("set_current_object", name, 0, FALSE, called)
           /\ UNCHANGED shared_state
           /\ TrackerFrame

Filter ==
    \E options \in TrackerOptions, catalog_names \in {None, Some(<<"M">>)} :
        \E called \in {filter(TrackerSelf, catalog_names, options, shared_state)} :
           /\ TrackerBecomes(called.self)
           /\ TrackerCall("filter", "", 0, FALSE, called)
           /\ UNCHANGED shared_state
           /\ TrackerFrame

Publish ==
    \E state \in TrackerContexts :
        /\ shared_state' = state
        /\ TrackerCall("publish", "", 0, FALSE, Ok(TrackerSelf, None))
        /\ UNCHANGED <<registryVars, trackerVars>>
        /\ TrackerFrame

TrackerNext ==
    \/ SetCurrentCatalog
    \/ NextCatalog
    \/ PreviousCatalog
    \/ NextObject
    \/ SetCurrentObject
    \/ Filter
    \/ Publish

SpecTracker == InitTracker /\ [][TrackerNext]_vars

\* the list the last next_object call walked, and its sequences
Active ==
    IF last.filtered THEN heap[current_catalog].filtered_objects
    ELSE heap[current_catalog].objects

ActiveIds == Sequences(Active)

Tracked == object_tracker[current_catalog_name]

\* the call found no tracked object, or one that is not in the active list
Jumped ==
    /\ last.op = "next_object"
    /\ last.pre_key = None \/ last.pre_key[1] \notin Range(ActiveIds)

\* the call found the tracked object in the active list
Stepped ==
    /\ last.op = "next_object"
    /\ last.pre_key # None
    /\ last.pre_key[1] \in Range(ActiveIds)

\* C4: without a tracked object, or with one that is not in the active list,
\* next_object selects and returns the first object of the active list for
\* direction 1 and the last one for direction -1.
C4_JumpsToEnd ==
    Jumped =>
      /\ last.err = ""
      /\ Active # <<>>
      /\ LET target == IF last.direction = 1 THEN Active[1] ELSE Active[Len(Active)]
         IN /\ last.ret = Some(target)
            /\ Tracked = Some(target.sequence)

\* C5: with the tracked object at position i of the active list, next_object
\* moves to position i + direction; past either end it tracks nothing, sets
\* the designator number to 0 and returns none, and does not wrap.
C5_StepsOrClears ==
    Stepped =>
      LET i == IndexOf(ActiveIds, last.pre_key[1])
          j == i + last.direction
      IN /\ last.err = ""
         /\ IF j < 1 \/ j > Len(Active)
            THEN /\ Tracked = None
                 /\ designator_tracker[current_catalog_name].object_number = 0
                 /\ last.ret = None
            ELSE /\ Tracked = Some(ActiveIds[j])
                 /\ last.ret = Some(Active[j])

\* forward from sequence 47, the last of the filtered list 5, 12, 47
C5_Witness ==
    /\ Stepped
    /\ last.filtered /\ last.direction = 1
    /\ ~heap[current_catalog].shares_objects
    /\ ActiveIds = <<5, 12, 47>>
    /\ last.pre_key = Some(47)
    /\ last.ret = None
    /\ Tracked = None

\* C7: set_current_catalog("PUSH") completes with exactly one catalog "PUSH"
\* in the registry, holding one object, and with "PUSH" the current catalog.
C7_PushCreatesOneCatalog ==
    (last.op = "set_current_catalog" /\ last.name = "PUSH") =>
      /\ last.err = ""
      /\ Cardinality({i \in DOMAIN catalogs.catalogs :
                         catalogs.catalogs[i] = "PUSH"}) = 1
      /\ "PUSH" \in DOMAIN heap
      /\ Len(heap["PUSH"].objects) = 1
      /\ current_catalog_name = "PUSH"

\* C13: next_object raises nothing, and on an empty active list it leaves no
\* tracked object, the designator number 0 and returns none.
C13_NextObjectNeverFails ==
    last.op = "next_object" =>
      /\ last.err = ""
      /\ Active = <<>> =>
            /\ Tracked = None
            /\ designator_tracker[current_catalog_name].object_number = 0
            /\ last.ret = None

\* the objects of the current catalog with the tracked sequence
TrackedObjects ==
    {obj \in Range(heap[current_catalog].objects) :
        Tracked # None /\ obj.sequence = Tracked[1]}

\* a next_object or set_current_object call that has returned
Completed ==
    last.op \in {"next_object", "set_current_object"} /\ last.err = ""

\* C27: after a completed next_object or set_current_object call the
\* designator number of the current catalog is the tracked sequence, or 0
\* when nothing is tracked; next_object has returned the object of the
\* current catalog with the tracked sequence, or none when nothing is
\* tracked; the call left the tracked object and the designator of every
\* other catalog as they were.
C27_DesignatorFollowsTracked ==
    /\ [](Completed =>
            /\ designator_tracker[current_catalog_name].object_number
                  = IF Tracked = None THEN 0 ELSE Tracked[1]
            /\ last.op = "next_object" =>
                  IF Tracked = None THEN last.ret = None
                  ELSE last.ret # None /\ last.ret[1] \in TrackedObjects)
    /\ [][Completed' =>
            \A c \in DOMAIN object_tracker \ {current_catalog_name'} :
               /\ object_tracker'[c] = object_tracker[c]
               /\ designator_tracker'[c] = designator_tracker[c]]_vars

\* set_current_object(12, "M") called with NGC current and sequence 5
\* tracked there: M is current with 12, NGC still has 5
C27_Witness ==
    /\ last.op = "set_current_object" /\ last.err = "" /\ last.name = "M"
    /\ current_catalog_name = "M"
    /\ Tracked = Some(12)
    /\ designator_tracker["M"].object_number = 12
    /\ "NGC" \in DOMAIN object_tracker
    /\ object_tracker["NGC"] = Some(5)
    /\ designator_tracker["NGC"].object_number = 5

\* C28: in every tracker state get_current_object raises nothing and
\* returns none when no object of the current catalog has the tracked
\* sequence (or nothing is tracked), and such an object otherwise.
C28_CurrentObjectNeverFails ==
    LET called == get_current_object(TrackerSelf)
    IN /\ called.err = ""
       /\ IF TrackedObjects = {} THEN called.ret = None
          ELSE called.ret # None /\ called.ret[1] \in TrackedObjects

\* C29: does_filtered_have_current_object is true exactly when an object is
\* tracked whose sequence some object of the current catalog's
\* filtered_objects has; so it is true right after next_object(filtered=True)
\* has returned an object.
C29_FilteredHasCurrentObject ==
    LET called == does_filtered_have_current_object(TrackerSelf)
    IN /\ called.err = ""
       /\ called.ret
            <=> /\ Tracked # None
                /\ Tracked[1] \in
                      Range(Sequences(heap[current_catalog].filtered_objects))
       /\ (/\ last.op = "next_object" /\ last.err = ""
           /\ last.filtered /\ last.ret # None) => called.ret

----------------------------------------------------------------------------
(* CatalogBuilder.  Rows are records; catalogs_info, a dict in insertion   *)
(* order, is the sequence of its entries, one per code.                    *)

\* {row["id"]: dict(row) for row in objects}: the last row of an id is kept
ObjectsById(rows) ==
    LET pos == PosDict(IdKeys(rows))
    IN [k \in DOMAIN pos |-> rows[pos[k]]]

\* Names.get on the defaultdict that get_names returns
Names_get(common_names, object_id) ==
    IF object_id \in DOMAIN common_names THEN common_names[object_id] ELSE <<>>

\* ObservationsDatabase.check_logged: obs_db is the set of logged object ids
check_logged(obs_db, composite_instance) == composite_instance.object_id \in obs_db

\* CompositeObject.from_dict copies the fields of the merged row; logged and
\* names start unset
from_dict(composite_data) ==
    [id |-> composite_data.id, sequence |-> composite_data.sequence,
     object_id |-> composite_data.object_id,
     catalog_code |-> composite_data.catalog_code,
     mag |-> composite_data.mag, obj_type |-> composite_data.obj_type,
     ra |-> composite_data.ra, dec |-> composite_data.dec,
     logged |-> FALSE, names |-> <<>>]

\* object_row | catalog_obj: the keys of both rows, with the membership
\* row's value for id, the one key both have
DictMerge(object_row, catalog_obj) ==
    [id |-> catalog_obj.id, object_id |-> catalog_obj.object_id,
     catalog_code |-> catalog_obj.catalog_code, sequence |-> catalog_obj.sequence,
     obj_type |-> object_row.obj_type, ra |-> object_row.ra,
     dec |-> object_row.dec, mag |-> object_row.mag]

\* the body of the loop of _build_composite for one membership row whose
\* object is known: objects[object_id] | catalog_obj takes the membership
\* row's value for a key both rows have
CompositeOf(catalog_obj, objects, common_names, obs_db) ==
    LET object_id == catalog_obj.object_id
        composite_data == DictMerge(objects[object_id], catalog_obj)
        composite_instance == from_dict(composite_data)
    IN [composite_instance EXCEPT
          !.logged = check_logged(obs_db, composite_instance),
          !.names = Names_get(common_names, object_id)]

\* what the loop of _build_composite ends with
Composites(err, composite_objects) == [err |-> err, ret |-> composite_objects]

RECURSIVE BuildCompositeFrom(_, _, _, _, _)
\* loop that drops a membership row of an unknown object and goes on
BuildCompositeFrom_SkipsUnknown(composite_objects, remaining, objects, common_names, obs_db) ==
    IF remaining = <<>> THEN Composites("", composite_objects)
    ELSE IF Head(remaining).object_id \notin DOMAIN objects
         THEN BuildCompositeFrom(composite_objects, Tail(remaining), objects,
                                 common_names, obs_db)
    ELSE BuildCompositeFrom(
             Append(composite_objects,
                    CompositeOf(Head(remaining), objects, common_names, obs_db)),
             Tail(remaining), objects, common_names, obs_db)

\* the loop of _build_composite: objects[object_id] raises KeyError for an
\* object id that no object row has
BuildCompositeFrom(composite_objects, remaining, objects, common_names, obs_db) ==
    IF remaining = <<>> THEN Composites("", composite_objects)
    ELSE IF Head(remaining).object_id \notin DOMAIN objects
         THEN Composites("KeyError", <<>>)
    ELSE BuildCompositeFrom(
             Append(composite_objects,
                    CompositeOf(Head(remaining), objects, common_names, obs_db)),
             Tail(remaining), objects, common_names, obs_db)

_build_composite(catalog_objects, objects, common_names, obs_db) ==
    BuildCompositeFrom(<<>>, catalog_objects, objects, common_names, obs_db)

RECURSIVE Group(_, _)
\* composite_dict.get(catalog_code, []) after the setdefault/append loop
Group(composite_objects, catalog_code) ==
    IF composite_objects = <<>> THEN <<>>
    ELSE IF Head(composite_objects).catalog_code = catalog_code
         THEN <<Head(composite_objects)>> \o Group(Tail(composite_objects), catalog_code)
         ELSE Group(Tail(composite_objects), catalog_code)

\* the registry and its Catalog instances over a list of catalog entries
CatalogsOver(composite_objects, entries) ==
    [self |-> Catalogs([i \in DOMAIN entries |-> entries[i].catalog_code]),
     heap |-> [code \in {entries[i].catalog_code : i \in DOMAIN entries} |->
                 LET catalog_info ==
                         entries[CHOOSE i \in DOMAIN entries :
                                     entries[i].catalog_code = code]
                 IN add_objects(Catalog(code, catalog_info.max_sequence,
                                        catalog_info.desc),
                                Group(composite_objects, code))]]

\* _get_catalogs that makes a catalog of every group of composites instead
\* of every code of catalogs_info
_get_catalogs_FromGroups(composite_objects, catalogs_info) ==
    CatalogsOver(composite_objects,
                 SelectSeq(catalogs_info,
                           LAMBDA e : Group(composite_objects, e.catalog_code) # <<>>))

\* _get_catalogs: one Catalog per code of catalogs_info, in its order
_get_catalogs(composite_objects, catalogs_info) ==
    CatalogsOver(composite_objects, catalogs_info)

\* build, over what the databases return; NoRegistry when it raises
NoRegistry == [self |-> None, heap |-> None]

build(catalog_objects, object_rows, common_names, catalogs_info, obs_db) ==
    LET Got(composite_objects) ==
            [err |-> composite_objects.err,
             ret |-> IF composite_objects.err # "" THEN NoRegistry
                     ELSE _get_catalogs(composite_objects.ret, catalogs_info),
             composite_objects |-> composite_objects.ret]
    IN Got(_build_composite(catalog_objects, ObjectsById(object_rows),
                            common_names, obs_db))

----------------------------------------------------------------------------
(* SpecBuilder: CatalogBuilder.build over small database contents          *)

\* the most catalog-membership rows of a database
MaxRows == 3

MembershipRow(id, object_id, catalog_code, sequence) ==
    [id |-> id, object_id |-> object_id, catalog_code |-> catalog_code,
     sequence |-> sequence]

\* object 1 is in M and in NGC; the code UGC is in no catalog metadata
MembershipRows ==
    {MembershipRow(1, 1, "M", 31), MembershipRow(2, 1, "NGC", 224),
     MembershipRow(3, 2, "NGC", 7), MembershipRow(4, 3, "M", 2),
     MembershipRow(5, 2, "UGC", 1)}

\* what get_catalog_objects returns
RowLists ==
    {l \in UNION {[1..n -> MembershipRows] : n \in 0..MaxRows} :
        \A i, j \in DOMAIN l : l[i] = l[j] => i = j}

ObjectRow(id) ==
    [id |-> id, obj_type |-> "Gx", ra |-> 0, dec |-> 40, mag |-> PyNum(5)]

\* what get_objects returns: with and without object 3
ObjectTables ==
    {<<ObjectRow(1), ObjectRow(2)>>, <<ObjectRow(1), ObjectRow(2), ObjectRow(3)>>}

CatalogInfo(catalog_code, max_sequence, desc) ==
    [catalog_code |-> catalog_code, max_sequence |-> max_sequence, desc |-> desc]

\* what get_catalogs_dict returns
Metadata ==
    {<<CatalogInfo("M", 110, "Messier"), CatalogInfo("NGC", 7840, "NGC")>>,
     <<CatalogInfo("NGC", 7840, "NGC"), CatalogInfo("M", 110, "Messier"),
       CatalogInfo("IC", 5386, "IC")>>}

\* what get_names returns
CommonNames == [object_id \in {1} |-> <<"Andromeda Galaxy">>]

\* the logged object ids of the observations database
ObsDbs == {{}, {1}}

\* the inputs and the outcome of a build call
BuildCall(catalog_objects, objects, catalogs_info, called) ==
    [op |-> "build", catalog_objects |-> catalog_objects, objects |-> objects,
     catalogs_info |-> catalogs_info, err |-> called.err,
     composite_objects |-> called.composite_objects]

\* a CatalogBuilder before build has returned a registry
InitBuilder ==
    /\ catalogs = None /\ heap = None
    /\ last = [op |-> "", err |-> ""]
    /\ shared_state = Idle
    /\ designator = Idle /\ typed = Idle
    /\ catalog_filter = Idle /\ catalog = Idle
    /\ designator_tracker = Idle /\ object_tracker = Idle
    /\ current_catalog_name = Idle /\ current_catalog = Idle
    /\ unfiltered_results = Idle /\ deduplicated = Idle

\* build, called until it returns a registry; catalogs and heap hold what
\* the call returned
Build ==
    /\ catalogs = None
    /\ \E catalog_objects \in RowLists, objects \in ObjectTables,
          catalogs_info \in Metadata, obs_db \in ObsDbs :
           \E called \in {build(catalog_objects, objects, CommonNames,
                                 catalogs_info, obs_db)} :
              /\ catalogs' = called.ret.self
              /\ heap' = called.ret.heap
              /\ last' = BuildCall(catalog_objects, objects, catalogs_info, called)
              /\ UNCHANGED <<designatorVars, catalogVars, shared_state,
                             trackerVars, dedupVars>>

BuilderNext == Build

SpecBuilder == InitBuilder /\ [][BuilderNext]_vars

\* the positions of the composites of one catalog code
Members(composite_objects, code) ==
    {i \in DOMAIN composite_objects : composite_objects[i].catalog_code = code}

\* C16: a build that returns has made one composite per membership row, with
\* the row's object_id, catalog_code and sequence, and a registry of one
\* Catalog per metadata code, in metadata order, each with the metadata's
\* max_sequence, exactly the composites of its code, and both indices built.
C16_BuildGroupsByCatalog ==
    (last.op = "build" /\ last.err = "") =>
      LET rows == last.catalog_objects
          made == last.composite_objects
          info == last.catalogs_info
      IN /\ Len(made) = Len(rows)
         /\ \A i \in DOMAIN rows :
               /\ made[i].object_id = rows[i].object_id
               /\ made[i].catalog_code = rows[i].catalog_code
               /\ made[i].sequence = rows[i].sequence
         /\ catalogs.catalogs = [i \in DOMAIN info |-> info[i].catalog_code]
         /\ DOMAIN heap = {info[i].catalog_code : i \in DOMAIN info}
         /\ \A i \in DOMAIN info :
               LET built == heap[info[i].catalog_code]
               IN /\ built.catalog_code = info[i].catalog_code
                  /\ built.max_sequence = info[i].max_sequence
                  /\ Len(built.objects)
                       = Cardinality(Members(made, info[i].catalog_code))
                  /\ Range(built.objects)
                       = {made[k] : k \in Members(made, info[i].catalog_code)}
                  /\ built.id_to_pos.set /\ built.sequence_to_pos.set

\* object 1 in M and in NGC, a second NGC object, and IC without any row
C16_Witness ==
    /\ last.op = "build" /\ last.err = ""
    /\ catalogs.catalogs = <<"NGC", "M", "IC">>
    /\ Len(heap["NGC"].objects) = 2 /\ Len(heap["M"].objects) = 1
    /\ heap["M"].objects[1].object_id = 1
    /\ \E i \in 1..2 : heap["NGC"].objects[i].object_id = 1
    /\ heap["IC"].objects = <<>>
    /\ heap["IC"].id_to_pos.set

\* C17: a build over a membership row whose object_id no object row has
\* raises an error and returns no registry.
C17_UnknownObjectFailsBuild ==
    (/\ last.op = "build"
     /\ \E i \in DOMAIN last.catalog_objects :
           \A k \in DOMAIN last.objects :
              last.objects[k].id # last.catalog_objects[i].object_id)
    => /\ last.err = "KeyError"
       /\ catalogs = None
       /\ heap = None

\* the second of two rows names object 3, which is not in the object rows
C17_Witness ==
    /\ last.op = "build"
    /\ last.catalog_objects
         = <<MembershipRow(1, 1, "M", 31), MembershipRow(4, 3, "M", 2)>>
    /\ Len(last.objects) = 2
    /\ last.err = "KeyError"
    /\ catalogs = None

----------------------------------------------------------------------------
(* SpecRegistry: one Catalogs registry, mutated with add and set and read  *)
(* with get_dict and get_names                                             *)

\* the longest catalog list followed
MaxCatalogs == 3

RegistryCodes == {"M", "NGC", "IC"}

\* lists of catalogs with pairwise distinct codes
DistinctLists ==
    {<<>>} \cup {<<a>> : a \in RegistryCodes}
           \cup {l \in {<<a, b>> : a \in RegistryCodes, b \in RegistryCodes} :
                    l[1] # l[2]}

\* the lists handed to set: set takes any list of catalogs, also one that
\* holds two catalogs of one code
SetLists == DistinctLists \cup {<<"M", "M">>}

InitRegistry ==
    /\ \E list \in DistinctLists : catalogs = Catalogs(list)
    /\ last = [op |-> "init", code |-> "", ret |-> <<>>, before |-> <<>>]
    /\ heap = Idle /\ shared_state = Idle
    /\ designator = Idle /\ typed = Idle
    /\ catalog_filter = Idle /\ catalog = Idle
    /\ designator_tracker = Idle /\ object_tracker = Idle
    /\ current_catalog_name = Idle /\ current_catalog = Idle
    /\ unfiltered_results = Idle /\ deduplicated = Idle

RegistryFrame ==
    UNCHANGED <<designatorVars, catalogVars, heap, shared_state, trackerVars,
                dedupVars>>

\* before: the catalog list the call found
RegistryCall(op, code, ret) ==
    last' = [op |-> op, code |-> code, ret |-> ret, before |-> catalogs.catalogs]

RegistryAdd ==
    \E code \in RegistryCodes :
        /\ Len(catalogs.catalogs) < MaxCatalogs
        /\ catalogs' = add(catalogs, code)
        /\ RegistryCall("add", code, <<>>)
        /\ RegistryFrame

RegistrySet ==
    \E list \in SetLists :
        /\ catalogs' = set(catalogs, list)
        /\ RegistryCall("set", "", <<>>)
        /\ RegistryFrame

RegistryGetDict ==
    \E called \in {get_dict(catalogs)} :
        /\ catalogs' = called.self
        /\ RegistryCall("get_dict", "", called.ret)
        /\ RegistryFrame

RegistryGetNames ==
    \E called \in {get_names(catalogs)} :
        /\ catalogs' = called.self
        /\ RegistryCall("get_names", "", called.ret)
        /\ RegistryFrame

RegistryNext ==
    \/ RegistryAdd
    \/ RegistrySet
    \/ RegistryGetDict
    \/ RegistryGetNames

SpecRegistry == InitRegistry /\ [][RegistryNext]_vars

\* what a get_dict or get_names call returned is the code map of the list
ReadIsFresh ==
    last.op \in {"get_dict", "get_names"} =>
      /\ Range(last.ret) = Range(catalogs.catalogs)
      /\ Distinct(last.ret)

\* add of a code the list already had changed nothing in the list
DuplicateAddIsNoOp ==
    (last.op = "add" /\ last.code \in Range(last.before)) =>
      catalogs.catalogs = last.before

\* C14: every read returns the codes of the current list, the codes of the
\* list are pairwise distinct, and add of a code already present leaves the
\* list unchanged.
C14_RegistryMapFreshAndUnique ==
    /\ ReadIsFresh
    /\ Distinct(catalogs.catalogs)
    /\ DuplicateAddIsNoOp

----------------------------------------------------------------------------
(* SpecNavigation: the tracker's catalog and object selection over         *)
(* registries of one, two and three catalogs                               *)

WalkedRegistries == {<<"M">>, <<"M", "NGC">>, <<"M", "NGC", "IC">>}

InitNavigation == TrackerBuiltOver(WalkedRegistries)

NavigationNext ==
    \/ SetCurrentCatalog
    \/ NextCatalog
    \/ PreviousCatalog
    \/ SetCurrentObject

SpecNavigation == InitNavigation /\ [][NavigationNext]_vars

\* a next_catalog or previous_catalog call has just returned
Moved == last.op \in {"next_catalog", "previous_catalog"}

\* C15: next_catalog and previous_catalog raise nothing and move the current
\* catalog from index i of the registry's name list to index
\* (i + direction) mod N, and a previous_catalog that directly follows a
\* next_catalog is back at the catalog the next_catalog started from.
C15_CatalogStepIsCyclic ==
    /\ [](Moved =>
            LET listed == catalogs.catalogs
                i == IndexOf(listed, last.pre_name) - 1
            IN /\ last.err = ""
               /\ i >= 0
               /\ current_catalog_name
                    = listed[((i + last.direction) % Len(listed)) + 1]
               /\ current_catalog = current_catalog_name)
    /\ [][(last.op = "next_catalog" /\ last'.op = "previous_catalog")
            => current_catalog_name' = last.pre_name]_vars

\* previous_catalog from the first of three catalogs ends at the last one
C15_Witness ==
    /\ last.op = "previous_catalog"
    /\ catalogs.catalogs = <<"M", "NGC", "IC">>
    /\ last.pre_name = "M"
    /\ current_catalog_name = "IC"

----------------------------------------------------------------------------
(* SpecSelection: a tracker whose filter and get_closest_objects are       *)
(* called for the current catalog and for lists of catalog codes           *)

\* the catalogs argument: not given, or a list of codes
SelectionLists == {None, Some(<<"M">>), Some(<<"NGC">>), Some(<<"M", "NGC">>)}

\* the positions and the counts get_closest_objects is asked for
QueryDecs == {40, 10}
QueryCounts == {1, 2}

\* the arguments and the outcome of a filter or get_closest_objects call
SelectionCall(op, catalog_names, options, dec, n, called) ==
    last' = [op |-> op, catalog_names |-> catalog_names, options |-> options,
             ra |-> 0, dec |-> dec, n |-> n,
             err |-> called.err, ret |-> called.ret]

InitSelection == TrackerBuiltOver(BuiltRegistries)

FilterSelected ==
    \E options \in TrackerOptions, catalog_names \in SelectionLists :
        \E called \in {filter(TrackerSelf, catalog_names, options, shared_state)} :
           /\ TrackerBecomes(called.self)
           /\ SelectionCall("filter", catalog_names, options, 0, 0, called)
           /\ UNCHANGED shared_state
           /\ TrackerFrame

GetClosestObjects ==
    \E dec \in QueryDecs, n \in QueryCounts, catalog_names \in SelectionLists :
        \E called \in {get_closest_objects(TrackerSelf, 0, dec, n, catalog_names)} :
           /\ TrackerBecomes(called.self)
           /\ SelectionCall("get_closest_objects", catalog_names, <<>>, dec, n,
                            called)
           /\ UNCHANGED shared_state
           /\ TrackerFrame

SelectionNext ==
    \/ SetCurrentCatalog
    \/ Publish
    \/ FilterSelected
    \/ GetClosestObjects

SpecSelection == InitSelection /\ [][SelectionNext]_vars

\* every code of the list is a catalog of the registry
Registered(catalog_names) ==
    catalog_names = None \/ Range(catalog_names[1]) \subseteq Range(catalogs.catalogs)

\* the codes a call selects: the current catalog when no list is given
SelectedCodes(catalog_names, current) ==
    IF catalog_names = None THEN {current} ELSE Range(catalog_names[1])

\* C18: get_closest_objects over the current catalog or a list of registered
\* codes returns; what it returns are filtered objects of the selected
\* catalogs, at most n of them, and with n = 1 and an object at the queried
\* position the object returned is at that position.
C18_ClosestFromSelectedCatalogs ==
    (last.op = "get_closest_objects" /\ Registered(last.catalog_names)) =>
      LET available ==
              UNION {Range(heap[c].filtered_objects) :
                        c \in SelectedCodes(last.catalog_names, current_catalog)}
      IN /\ last.err = ""
         /\ Range(last.ret) \subseteq available
         /\ Len(last.ret) <= last.n
         /\ (/\ last.n = 1
             /\ \E obj \in available : obj.ra = last.ra /\ obj.dec = last.dec)
            => (/\ Len(last.ret) = 1
                /\ last.ret[1].ra = last.ra /\ last.ret[1].dec = last.dec)

\* C19: a filter call over the current catalog or a list of registered codes
\* returns; every selected catalog then has the four configured values in
\* its CatalogFilter and the objects that pass it as filtered_objects, and
\* the CatalogFilter and filtered_objects of every other catalog are as
\* before the call.
C19_FilterReachesSelectedCatalogs ==
    [][(last'.op = "filter" /\ Registered(last'.catalog_names)) =>
         LET selected == SelectedCodes(last'.catalog_names, current_catalog)
         IN /\ last'.err = ""
            /\ \A c \in selected :
                  /\ heap'[c].catalog_filter.magnitude_filter = last'.options[1]
                  /\ heap'[c].catalog_filter.type_filter = last'.options[2]
                  /\ heap'[c].catalog_filter.altitude_filter = last'.options[3]
                  /\ heap'[c].catalog_filter.observed_filter = last'.options[4]
                  /\ heap'[c].filtered_objects
                       = FilterList(heap'[c].catalog_filter, heap'[c].objects).val
            /\ \A c \in (DOMAIN heap) \ selected :
                  /\ heap'[c].catalog_filter = heap[c].catalog_filter
                  /\ heap'[c].filtered_objects = heap[c].filtered_objects]_vars

----------------------------------------------------------------------------
(* SpecRegistryTracker: SpecTracker, and catalogs added to the registry    *)
(* with Catalogs.add while the tracker runs                                *)

\* Catalogs.add(catalog) on the registry the tracker holds; a catalog whose
\* code is taken is dropped, so its instance never gets into heap
CatalogsAdd ==
    \E code \in {"C", "M"} :
        /\ catalogs' = add(catalogs, code)
        /\ heap' = IF code \in DOMAIN heap THEN heap
                   ELSE Store(heap, code, BuiltCatalog(code))
        /\ TrackerCall("Catalogs.add", code, 0, FALSE, Ok(TrackerSelf, None))
        /\ UNCHANGED <<shared_state, trackerVars>>
        /\ TrackerFrame

RegistryTrackerNext ==
    \/ TrackerNext
    \/ CatalogsAdd

\* the tracker starts over the registry of one catalog, M
InitRegistryTracker == TrackerBuiltOver({<<"M">>})

SpecRegistryTracker == InitRegistryTracker /\ [][RegistryTrackerNext]_vars

\* C8: every catalog code of the registry is a key of designator_tracker and
\* of object_tracker, and current_catalog_name is a key of all three.
C8_TrackerCoversRegistry ==
    LET codes == Range(catalogs.catalogs)
    IN /\ codes \subseteq DOMAIN designator_tracker
       /\ codes \subseteq DOMAIN object_tracker
       /\ current_catalog_name \in codes
       /\ current_catalog_name \in DOMAIN designator_tracker
       /\ current_catalog_name \in DOMAIN object_tracker

====
